---- MODULE Spec2Model ----
(***************************************************************************)
(* SUCHAI flight software: persistent storage core.                        *)
(*   - storage engine, FLASH backend (flight-plan TLB, flight-plan table,  *)
(*     payload store, status table in FRAM)      src/os/include/suchai     *)
(*   - repository facade (repo_data_sem, fpl_queue, payload indexes)       *)
(*                                               src/system/repoData.c     *)
(* The media are those of the hosted build (flash[][] and fram[] arrays).  *)
(***************************************************************************)
EXTENDS Integers, Sequences, FiniteSets, TLC

(* ------------------------------------------------------------------ *)
(* Bounds of the model (scaled-down configuration values)              *)
(* ------------------------------------------------------------------ *)
\* SCH_FP_MAX_ENTRIES: number of TLB slots (N_max)
SCH_FP_MAX_ENTRIES == 2
\* flash pages per section: SCH_SIZE_PER_SECTION / ST_PAGE_SIZE
PagesPerSection == 4
\* SCH_SECTIONS_PER_PAYLOAD (K)
SCH_SECTIONS_PER_PAYLOAD == 2
\* number of payloads (P)
last_sensor == 2
\* status variables besides dat_fpl_queue and the payload indexes
NGeneralVars == 0
\* number of facade threads
NThreads == 2
\* facade calls each thread makes in the threaded specification
MaxCalls == 2
\* dat_del_fp is called while fpl_queue > -MaxQueueDrift
MaxQueueDrift == 1
\* payload_set is called while the flash holds fewer records than this
MaxRecords == 2

(* ------------------------------------------------------------------ *)
(* Program constants                                                   *)
(* ------------------------------------------------------------------ *)
ST_CMD_MAX_STR_PARAMS == 248
ST_CMD_MAX_STR_NAME == 248
ST_PAGE_SIZE == 512
ST_FP_NULL == -1
SCH_ST_OK == 0
SCH_ST_ERROR == -1
SCH_FLASH_INIT_MEMORY == 0
SCH_COMM_NODE == 1

\* uint32_t values (fp_addr_t.addr, flash addresses) are held as their 32-bit
\* two's-complement pattern: 0xFFFFFFFF is -1, and + and - wrap at 2^32 as in C
U32Add(a, b) == a + b
U32Sub(a, b) == a - b
\* a variant that compares the two patterns as signed values
signed_gt(a, b) == a > b
\* unsigned a > b
U32Gt(a, b) == IF (a < 0) = (b < 0) THEN a > b ELSE a < 0
\* unsigned a / d, for d a power of two below 2^31
U32Div(a, d) == IF a < 0 THEN (2^30 \div d) * 4 + (a \div d) ELSE a \div d
\* sizeof(fp_container_t): four int32_t, cmd[248], args[248]
FP_CONTAINER_SIZE == 4 * 4 + ST_CMD_MAX_STR_PARAMS + ST_CMD_MAX_STR_NAME
SCH_SIZE_PER_SECTION == PagesPerSection * ST_PAGE_SIZE
st_flightplan_sections == (SCH_FP_MAX_ENTRIES * FP_CONTAINER_SIZE) \div SCH_SIZE_PER_SECTION + 1
commands_per_section == SCH_SIZE_PER_SECTION \div FP_CONTAINER_SIZE

\* storage_init: the address map
st_flightplan_tlb_base_addr == SCH_FLASH_INIT_MEMORY
st_flightplan_base_addr == st_flightplan_tlb_base_addr + SCH_SIZE_PER_SECTION
st_payload_base_addr == st_flightplan_base_addr + SCH_SIZE_PER_SECTION * st_flightplan_sections

\* a value whose bytes the program never wrote (uninitialised or out-of-bounds memory)
GARBAGE == 0 - 2^30
\* a NULL pointer to a table
NULL == << >>

Min(a, b) == IF a < b THEN a ELSE b

(* ------------------------------------------------------------------ *)
(* Status table layout (repoDataSchema.h is not part of the sources)   *)
(* ------------------------------------------------------------------ *)
\* dat_status_last_address: length of the status address enumeration (N_vars)
dat_status_last_address == 1 + last_sensor + NGeneralVars
\* dat_status_last_var: length of dat_status_list (N_vars)
dat_status_last_var == 1 + last_sensor + NGeneralVars
\* the status address of the flight-plan queue length
dat_fpl_queue == 0

(* ------------------------------------------------------------------ *)
(* Flash media: the set of written byte ranges [addr, addr+size)       *)
(* ------------------------------------------------------------------ *)
\* sections of the modelled flash: TLB, flight plan, payloads, one spare
FlashSections == 1 + st_flightplan_sections + last_sensor * SCH_SECTIONS_PER_PAYLOAD + 1
FlashPages == 0 .. (FlashSections * PagesPerSection - 1)
PageOf(addr) == U32Div(addr, ST_PAGE_SIZE)
EmptyFlash == {}

\* memset(flash, 0, section): an erased page read as a flight-plan container
ErasedContainer ==
    [unixtime |-> 0, executions |-> 0, periodical |-> 0, node |-> 0,
     cmd |-> << >>, args |-> << >>]
GarbageContainer ==
    [unixtime |-> GARBAGE, executions |-> GARBAGE, periodical |-> GARBAGE,
     node |-> GARBAGE, cmd |-> <<GARBAGE>>, args |-> <<GARBAGE>>]

Overlaps(r, addr, len) == r.addr < addr + len /\ addr < r.addr + r.size

\* the code of a flash or FRAM driver call: rc == GS_OK ? SCH_ST_OK : SCH_ST_ERROR.
\* The hosted build (memcpy) never fails; on a faulty medium the call returns the
\* error after the transfer, whose effect is modelled as that of the call
MediaRc(s) == IF s.media_fault THEN SCH_ST_ERROR ELSE SCH_ST_OK

\* storage_write_flash: memcpy(flash_p + addr, data, len)
storage_write_flash(fl, addr, data, len) ==
    IF PageOf(addr) \notin FlashPages THEN fl
    ELSE {r \in fl : ~Overlaps(r, addr, len)}
            \cup {[addr |-> addr, size |-> len, data |-> data]}

\* storage_read_flash: memcpy(data, flash_p + addr, len); erased is the value of
\* zeroed bytes, garbage the value of bytes written as something else
storage_read_flash(fl, addr, len, erased, garbage) ==
    IF PageOf(addr) \notin FlashPages THEN garbage
    ELSE IF \E r \in fl : r.addr = addr /\ r.size = len
         THEN (CHOOSE r \in fl : r.addr = addr /\ r.size = len).data
         ELSE IF \E r \in fl : Overlaps(r, addr, len) THEN garbage
         ELSE erased

\* storage_erase_flash: memset of the whole section holding addr
storage_erase_flash(fl, addr) ==
    LET section == PageOf(addr) \div PagesPerSection
    IN  {r \in fl : PageOf(r.addr) \div PagesPerSection # section}

(* ------------------------------------------------------------------ *)
(* Flight-plan entry (fp_entry_t) and its flash container               *)
(* ------------------------------------------------------------------ *)
\* strncpy(dst, src, n) into a zeroed buffer: a full buffer holds no terminator
Strncpy(src, n) == SubSeq(src, 1, Min(Len(src), n))

\* set_st lines 765-773: fp_entry_t -> fp_container_t
FpContainerOf(row) ==
    [unixtime |-> row.unixtime, executions |-> row.executions,
     periodical |-> row.periodical, node |-> row.node,
     cmd |-> Strncpy(row.cmd, ST_CMD_MAX_STR_PARAMS),
     args |-> Strncpy(row.args, ST_CMD_MAX_STR_NAME)]

\* strdup(fp_entry->args): runs past the container when args holds no terminator
StrdupArgs(c) ==
    IF Len(c.args) < ST_CMD_MAX_STR_NAME THEN c.args ELSE c.args \o <<GARBAGE>>
\* strdup(fp_entry->cmd): runs into args when cmd holds no terminator
StrdupCmd(c) ==
    IF Len(c.cmd) < ST_CMD_MAX_STR_PARAMS THEN c.cmd ELSE c.cmd \o StrdupArgs(c)

\* get_idx lines 829-835: fp_container_t -> fp_entry_t
FpEntryOf(c) ==
    [unixtime |-> c.unixtime, executions |-> c.executions,
     periodical |-> c.periodical, node |-> c.node,
     cmd |-> StrdupCmd(c), args |-> StrdupArgs(c)]

\* an fp_entry_t the callee left unassigned
NoRow ==
    [unixtime |-> GARBAGE, executions |-> GARBAGE, periodical |-> GARBAGE,
     node |-> GARBAGE, cmd |-> << >>, args |-> << >>]

(* ------------------------------------------------------------------ *)
(* Flight-plan TLB                                                     *)
(* ------------------------------------------------------------------ *)
TlbSlots == 0 .. (SCH_FP_MAX_ENTRIES - 1)
\* memset(st_flightplan_tlb, -1, sizeof(st_flightplan_tlb))
EmptyTlbEntry == [addr |-> ST_FP_NULL, unixtime |-> ST_FP_NULL]
MemsetTlb == [k \in 0 .. SCH_FP_MAX_ENTRIES |-> EmptyTlbEntry]
\* the TLB as storage_flight_plan_reset leaves it
ResetTlb == [MemsetTlb EXCEPT ![SCH_FP_MAX_ENTRIES] = [addr |-> 0, unixtime |-> 0]]

\* (int) of a uint32_t: the same bit pattern
ToInt(u) == u

\* st_flightplan_addr[i] / st_payload_addr[i]: reading past the malloc'd table
\* yields the word the heap holds there during the call (s.oob_word)
TableAt(tab, i, oob) == IF (i + 1) \in DOMAIN tab THEN tab[i + 1] ELSE oob

\* storage_table_flight_plan_init lines 465-473
FlightplanAddrTable ==
    [i \in 1 .. st_flightplan_sections |->
        st_flightplan_base_addr + (i - 1) * SCH_SIZE_PER_SECTION]
\* storage_table_payload_init lines 499-507
PayloadAddrTable(n_entries) ==
    [i \in 1 .. (SCH_SECTIONS_PER_PAYLOAD * n_entries) |->
        st_payload_base_addr + (i - 1) * SCH_SIZE_PER_SECTION]

\* storage_flightplan_load_tlb (ST_FP_TLB_FRAM)
storage_flightplan_load_tlb(s) ==
    [st |-> [s EXCEPT !.st_flightplan_tlb = s.fram_tlb], rc |-> MediaRc(s)]

\* storage_flightplan_dump_tlb (ST_FP_TLB_FRAM): index < 0 saves the whole table
storage_flightplan_dump_tlb(s, index) ==
    [st |-> [s EXCEPT !.fram_tlb =
                IF index < 0 THEN s.st_flightplan_tlb
                ELSE [@ EXCEPT ![index] = s.st_flightplan_tlb[index]]],
     rc |-> MediaRc(s)]

\* a variant that backs up the slot and not the metadata counter
update_tlb_skips_counter_dump(s, index, unixtime, addr) ==
    LET s1 == [s EXCEPT !.st_flightplan_tlb[index] =
                             [addr |-> addr, unixtime |-> unixtime]]
        s2 == [s1 EXCEPT !.st_flightplan_tlb[SCH_FP_MAX_ENTRIES].addr = U32Add(1, @)]
    IN  storage_flightplan_dump_tlb(s2, index)

\* a variant that leaves the metadata counter as it was
update_tlb_keeps_counter(s, index, unixtime, addr) ==
    LET s1 == [s EXCEPT !.st_flightplan_tlb[index] =
                             [addr |-> addr, unixtime |-> unixtime]]
        d1 == storage_flightplan_dump_tlb(s1, index)
    IN  IF d1.rc = SCH_ST_OK
        THEN storage_flightplan_dump_tlb(d1.st, SCH_FP_MAX_ENTRIES)
        ELSE d1

storage_flightplan_update_tlb(s, index, unixtime, addr) ==
    LET s1 == [s EXCEPT !.st_flightplan_tlb[index] =
                             [addr |-> addr, unixtime |-> unixtime]]
        s2 == [s1 EXCEPT !.st_flightplan_tlb[SCH_FP_MAX_ENTRIES].addr = U32Add(1, @)]
        d1 == storage_flightplan_dump_tlb(s2, index)
    IN  IF d1.rc = SCH_ST_OK
        THEN storage_flightplan_dump_tlb(d1.st, SCH_FP_MAX_ENTRIES)
        ELSE d1

\* the loop of storage_flightplan_find_index_tlb from slot i on
RECURSIVE FindFrom(_, _, _)
FindFrom(tlb, unixtime, i) ==
    IF i >= SCH_FP_MAX_ENTRIES THEN -1
    ELSE IF tlb[i].unixtime = unixtime THEN i
    ELSE FindFrom(tlb, unixtime, i + 1)

\* a variant that searches from the last slot down and returns the highest match
find_index_tlb_from_top(s, unixtime) ==
    LET found == {k \in TlbSlots : s.st_flightplan_tlb[k].unixtime = unixtime}
    IN  IF found = {} THEN -1 ELSE CHOOSE k \in found : \A j \in found : j <= k

storage_flightplan_find_index_tlb(s, unixtime) ==
    FindFrom(s.st_flightplan_tlb, unixtime, 0)

\* a variant that clears the address and leaves the slot's unixtime in place
erase_index_tlb_keeps_time(s, index) ==
    IF index < 0 \/ index >= s.st_flightplan_entries
    THEN [st |-> s, rc |-> -1]
    ELSE storage_flightplan_dump_tlb(
            [s EXCEPT !.st_flightplan_tlb[index].addr = ST_FP_NULL], index)

\* a variant that also erases the flash page the slot pointed at
erase_index_tlb_erases_page(s, index) ==
    IF index < 0 \/ index >= s.st_flightplan_entries
    THEN [st |-> s, rc |-> -1]
    ELSE storage_flightplan_dump_tlb(
            [s EXCEPT !.st_flightplan_tlb[index] = EmptyTlbEntry,
                      !.flash = {rec \in @ : rec.addr # s.st_flightplan_tlb[index].addr}],
            index)

flight_plan_erase_index_tlb(s, index) ==
    IF index < 0 \/ index >= s.st_flightplan_entries
    THEN [st |-> s, rc |-> -1]
    ELSE storage_flightplan_dump_tlb(
            [s EXCEPT !.st_flightplan_tlb[index] = EmptyTlbEntry], index)

\* the for loop of flight_plan_rebuild_tlb (lines 647-666); fp_entries is the
\* RAM copy of section 0, r the state and the summed return codes
RECURSIVE RebuildLoop(_, _, _)
RebuildLoop(r, fp_entries, index_tlb) ==
    IF index_tlb >= SCH_FP_MAX_ENTRIES THEN r
    ELSE
      LET s == r.st
          e == s.st_flightplan_tlb[index_tlb]
      IN  IF e.unixtime # ST_FP_NULL
          THEN
            LET old_index_flash ==
                    U32Div(U32Sub(e.addr, TableAt(s.st_flightplan_addr, 0, s.oob_word)),
                           FP_CONTAINER_SIZE)
                \* fp_entries + old_index_flash: past the buffer for an index >= commands_per_section
                fp_entry == IF old_index_flash < commands_per_section
                            THEN fp_entries[old_index_flash]
                            ELSE GarbageContainer
                new_index_flash == ToInt(s.st_flightplan_tlb[SCH_FP_MAX_ENTRIES].addr)
                section_index == new_index_flash \div commands_per_section
                index_in_section == new_index_flash % commands_per_section
                new_addr == U32Add(TableAt(s.st_flightplan_addr, section_index, s.oob_word),
                                   index_in_section * FP_CONTAINER_SIZE)
                u == storage_flightplan_update_tlb(s, index_tlb, e.unixtime, new_addr)
                w == [u.st EXCEPT !.flash =
                         storage_write_flash(@, new_addr, fp_entry, FP_CONTAINER_SIZE)]
            IN  RebuildLoop([st |-> w, rc |-> r.rc + u.rc + MediaRc(s)],
                            fp_entries, index_tlb + 1)
          ELSE RebuildLoop(r, fp_entries, index_tlb + 1)

\* a variant that does not reset the metadata counter before the entries are
\* written again
rebuild_keeps_counter(s) ==
    LET addr0 == TableAt(s.st_flightplan_addr, 0, s.oob_word)
        fp_entries ==
            [j \in 0 .. (commands_per_section - 1) |->
                storage_read_flash(s.flash, addr0 + j * FP_CONTAINER_SIZE,
                                   FP_CONTAINER_SIZE, ErasedContainer, GarbageContainer)]
        s1 == [s EXCEPT !.flash = storage_erase_flash(@, addr0)]
        r  == RebuildLoop([st |-> s1, rc |-> MediaRc(s) + MediaRc(s)], fp_entries, 0)
        d  == storage_flightplan_dump_tlb(r.st, -1)
    IN  [st |-> d.st, rc |-> r.rc + d.rc]

flight_plan_rebuild_tlb(s) ==
    LET addr0 == TableAt(s.st_flightplan_addr, 0, s.oob_word)
        fp_entries ==
            [j \in 0 .. (commands_per_section - 1) |->
                storage_read_flash(s.flash, addr0 + j * FP_CONTAINER_SIZE,
                                   FP_CONTAINER_SIZE, ErasedContainer, GarbageContainer)]
        s1 == [s EXCEPT !.flash = storage_erase_flash(@, addr0),
                        !.st_flightplan_tlb[SCH_FP_MAX_ENTRIES] =
                            [addr |-> 0, unixtime |-> 0]]
        r  == RebuildLoop([st |-> s1, rc |-> MediaRc(s) + MediaRc(s)], fp_entries, 0)
        d  == storage_flightplan_dump_tlb(r.st, -1)
    IN  [st |-> d.st, rc |-> r.rc + d.rc]

(* ------------------------------------------------------------------ *)
(* Flight-plan engine                                                  *)
(* ------------------------------------------------------------------ *)
\* storage_flight_plan_set_st from the search of a free slot on; s1 is the state
\* after the rebuild, if one was made
SetStAppend(s1, row) ==
    LET index_tlb == storage_flightplan_find_index_tlb(s1, ST_FP_NULL)
    IN  IF index_tlb = -1 \/ index_tlb >= s1.st_flightplan_entries
        THEN [st |-> s1, rc |-> SCH_ST_ERROR]
        ELSE
          LET index_flash == ToInt(s1.st_flightplan_tlb[SCH_FP_MAX_ENTRIES].addr)
              section_index == index_flash \div commands_per_section
              index_in_section == index_flash % commands_per_section
              addr == U32Add(TableAt(s1.st_flightplan_addr, section_index, s1.oob_word),
                             index_in_section * FP_CONTAINER_SIZE)
              new_entry == FpContainerOf(row)
              u == storage_flightplan_update_tlb(s1, index_tlb, row.unixtime, addr)
          IN  IF u.rc = SCH_ST_OK
              THEN [st |-> [u.st EXCEPT !.flash =
                               storage_write_flash(@, addr, new_entry, FP_CONTAINER_SIZE)],
                    rc |-> MediaRc(s1)]
              ELSE u

storage_flight_plan_set_st(s, row) ==
    IF ~s.storage_is_open THEN [st |-> s, rc |-> SCH_ST_ERROR]
    ELSE SetStAppend(
           IF U32Gt(s.st_flightplan_tlb[SCH_FP_MAX_ENTRIES].addr, commands_per_section)
           THEN flight_plan_rebuild_tlb(s).st
           ELSE s,
           row)

storage_flight_plan_set(s, timetodo, command, args, executions, period, node) ==
    IF timetodo < 0 \/ ~s.storage_is_open
    THEN [st |-> s, rc |-> SCH_ST_ERROR]
    ELSE storage_flight_plan_set_st(s,
            [unixtime |-> timetodo, executions |-> executions, periodical |-> period,
             node |-> node, cmd |-> command, args |-> args])

\* returns the code and what *row holds afterwards (row0: what it held before)
storage_flight_plan_get_idx(s, index, row0) ==
    IF index >= s.st_flightplan_entries THEN [rc |-> SCH_ST_ERROR, row |-> row0]
    ELSE IF s.st_flightplan_tlb[index].unixtime = ST_FP_NULL
    THEN [rc |-> SCH_ST_ERROR, row |-> row0]
    ELSE IF MediaRc(s) # SCH_ST_OK THEN [rc |-> MediaRc(s), row |-> row0]
    ELSE [rc |-> SCH_ST_OK,
          row |-> FpEntryOf(storage_read_flash(s.flash, s.st_flightplan_tlb[index].addr,
                                FP_CONTAINER_SIZE, ErasedContainer, GarbageContainer))]

storage_flight_plan_get_st(s, timetodo, row0) ==
    LET index == storage_flightplan_find_index_tlb(s, timetodo)
    IN  IF index < 0 THEN [rc |-> SCH_ST_ERROR, row |-> row0]
        ELSE storage_flight_plan_get_idx(s, index, row0)

\* strncpy into the caller's command/args buffers; node, executions, period copied
storage_flight_plan_get_args(s, timetodo) ==
    LET g == storage_flight_plan_get_st(s, timetodo, NoRow)
    IN  IF g.rc # SCH_ST_OK THEN [rc |-> SCH_ST_ERROR, row |-> NoRow]
        ELSE [rc |-> SCH_ST_OK,
              row |-> [g.row EXCEPT !.cmd = Strncpy(@, ST_CMD_MAX_STR_NAME),
                                    !.args = Strncpy(@, ST_CMD_MAX_STR_PARAMS)]]

storage_flight_plan_delete_row_idx(s, index) ==
    IF index >= s.st_flightplan_entries THEN [st |-> s, rc |-> SCH_ST_ERROR]
    ELSE flight_plan_erase_index_tlb(s, index)

\* a variant that finds the entry and leaves it in the table
delete_row_keeps_entry(s, timetodo) ==
    LET index == storage_flightplan_find_index_tlb(s, timetodo)
    IN  IF index < 0 THEN [st |-> s, rc |-> SCH_ST_ERROR]
        ELSE [st |-> s, rc |-> SCH_ST_OK]

storage_flight_plan_delete_row(s, timetodo) ==
    LET index == storage_flightplan_find_index_tlb(s, timetodo)
    IN  IF index < 0 THEN [st |-> s, rc |-> SCH_ST_ERROR]
        ELSE storage_flight_plan_delete_row_idx(s, index)

\* the erase loop of storage_flight_plan_reset over sections i .. st_flightplan_sections-1
RECURSIVE EraseFpSections(_, _, _)
EraseFpSections(fl, tab, i) ==
    IF i >= st_flightplan_sections THEN fl
    ELSE EraseFpSections(storage_erase_flash(fl, tab[i + 1]), tab, i + 1)

\* storage_flight_plan_reset leaving the FRAM copy of the TLB as it was
reset_tlb_not_dumped(s) ==
    IF ~s.storage_is_open \/ s.st_payload_addr = NULL
    THEN [st |-> s, rc |-> SCH_ST_ERROR]
    ELSE [st |-> [s EXCEPT !.flash = EraseFpSections(@, s.st_flightplan_addr, 0),
                           !.st_flightplan_tlb = ResetTlb],
          rc |-> SCH_ST_OK]

storage_flight_plan_reset(s) ==
    IF ~s.storage_is_open \/ s.st_payload_addr = NULL
    THEN [st |-> s, rc |-> SCH_ST_ERROR]
    ELSE
      LET s1 == [s EXCEPT !.flash = EraseFpSections(@, s.st_flightplan_addr, 0),
                          !.st_flightplan_tlb = ResetTlb]
          d == storage_flightplan_dump_tlb(s1, -1)
      IN  [st |-> d.st,
           rc |-> IF st_flightplan_sections * MediaRc(s) + d.rc = SCH_ST_OK
                  THEN SCH_ST_OK ELSE SCH_ST_ERROR]

(* ------------------------------------------------------------------ *)
(* Payload store                                                       *)
(* ------------------------------------------------------------------ *)
\* a variant without the page check
alignment_never_checked(addr, size) == SCH_ST_OK

check_address_alignment(addr, size) ==
    IF U32Div(U32Add(addr, size), ST_PAGE_SIZE) > U32Div(addr, ST_PAGE_SIZE)
    THEN SCH_ST_ERROR ELSE SCH_ST_OK

\* returns the code and *address
_get_sample_address(s, payload, index, size) ==
    LET samples_per_page == ST_PAGE_SIZE \div size
    IN  IF samples_per_page = 0 THEN [rc |-> SCH_ST_ERROR, address |-> GARBAGE]
        ELSE
          LET sample_page == index \div samples_per_page
              index_in_page == index % samples_per_page
              pages_in_section == SCH_SIZE_PER_SECTION \div ST_PAGE_SIZE
              samples_per_section == samples_per_page * pages_in_section
              sample_section == index \div samples_per_section
              section_index == payload * SCH_SECTIONS_PER_PAYLOAD + sample_section
          IN  IF sample_section > SCH_SECTIONS_PER_PAYLOAD
              THEN [rc |-> SCH_ST_ERROR, address |-> GARBAGE]
              ELSE IF section_index > s.st_payloads_entries * SCH_SECTIONS_PER_PAYLOAD
              THEN [rc |-> SCH_ST_ERROR, address |-> GARBAGE]
              ELSE
                LET address == U32Add(TableAt(s.st_payload_addr, section_index, s.oob_word),
                                      sample_page * ST_PAGE_SIZE + index_in_page * size)
                IN  IF U32Gt(address,
                             SCH_FLASH_INIT_MEMORY + st_flightplan_base_addr
                                + s.st_payloads_entries * SCH_SECTIONS_PER_PAYLOAD
                                    * SCH_SIZE_PER_SECTION)
                    THEN [rc |-> SCH_ST_ERROR, address |-> address]
                    ELSE [rc |-> SCH_ST_OK, address |-> address]

write_data_with_check(s, addr, data, size) ==
    IF check_address_alignment(addr, size) = SCH_ST_ERROR
    THEN [st |-> s, rc |-> SCH_ST_ERROR]
    ELSE [st |-> [s EXCEPT !.flash = storage_write_flash(@, addr, data, size)],
          rc |-> MediaRc(s)]

\* returns the code and the bytes left in *data (data0: what it held before)
read_data_with_check(s, addr, size, data0) ==
    IF check_address_alignment(addr, size) = SCH_ST_ERROR
    THEN [rc |-> SCH_ST_ERROR, data |-> data0]
    ELSE IF MediaRc(s) # SCH_ST_OK THEN [rc |-> SCH_ST_ERROR, data |-> GARBAGE]
    ELSE [rc |-> SCH_ST_OK, data |-> storage_read_flash(s.flash, addr, size, 0, GARBAGE)]

storage_payload_set_data(s, payload, index, data, schema) ==
    IF ~s.storage_is_open \/ s.st_payload_addr = NULL
    THEN [st |-> s, rc |-> SCH_ST_ERROR]
    ELSE
      LET a == _get_sample_address(s, payload, index, schema.size)
      IN  IF a.rc # SCH_ST_OK THEN [st |-> s, rc |-> SCH_ST_ERROR]
          ELSE write_data_with_check(s, a.address, data, schema.size)

storage_payload_get_data(s, payload, index, data0, schema) ==
    IF ~s.storage_is_open \/ s.st_payload_addr = NULL
    THEN [rc |-> SCH_ST_ERROR, data |-> data0]
    ELSE
      LET a == _get_sample_address(s, payload, index, schema.size)
      IN  IF a.rc # SCH_ST_OK THEN [rc |-> SCH_ST_ERROR, data |-> data0]
          ELSE read_data_with_check(s, a.address, schema.size, data0)

\* the erase loop of storage_payload_reset_table from section i on
RECURSIVE ErasePayloadSections(_, _, _)
ErasePayloadSections(s, payload, i) ==
    IF i >= SCH_SECTIONS_PER_PAYLOAD THEN s
    ELSE
      LET section_idx == i + payload * SCH_SECTIONS_PER_PAYLOAD
          section_addr == TableAt(s.st_payload_addr, section_idx, s.oob_word)
      IN  ErasePayloadSections(
              [s EXCEPT !.flash = storage_erase_flash(@, section_addr)], payload, i + 1)

storage_payload_reset_table(s, payload) ==
    IF ~s.storage_is_open \/ s.st_payload_addr = NULL
    THEN [st |-> s, rc |-> SCH_ST_ERROR]
    ELSE [st |-> ErasePayloadSections(s, payload, 0), rc |-> SCH_ST_OK]

\* the loop of storage_payload_reset from payload i on
RECURSIVE ResetPayloadsFrom(_, _)
ResetPayloadsFrom(s, i) ==
    IF i >= s.st_payloads_entries THEN s
    ELSE ResetPayloadsFrom(storage_payload_reset_table(s, i).st, i + 1)

storage_payload_reset(s) ==
    IF ~s.storage_is_open \/ s.st_payload_addr = NULL \/ s.st_payloads_entries = 0
    THEN [st |-> s, rc |-> SCH_ST_ERROR]
    ELSE [st |-> ResetPayloadsFrom(s, 0), rc |-> SCH_ST_OK]

(* ------------------------------------------------------------------ *)
(* Status table in FRAM                                                *)
(* ------------------------------------------------------------------ *)
\* (uint16_t)(index * sizeof(value32_t)), as a slot of the FRAM status area
StatusSlot(index) == ((index * 4) % 2^16) \div 4

storage_status_get_value_idx(s, index) ==
    LET slot == StatusSlot(index)
    IN  [rc |-> MediaRc(s),
         value |-> IF slot \in DOMAIN s.fram_status THEN s.fram_status[slot] ELSE GARBAGE]

storage_status_set_value_idx(s, index, value) ==
    LET slot == StatusSlot(index)
    IN  [st |-> IF slot \in DOMAIN s.fram_status
                THEN [s EXCEPT !.fram_status[slot] = value] ELSE s,
         rc |-> MediaRc(s)]

(* ------------------------------------------------------------------ *)
(* Storage life cycle                                                  *)
(* ------------------------------------------------------------------ *)
storage_init(s) == [st |-> [s EXCEPT !.storage_is_open = TRUE], rc |-> SCH_ST_OK]

\* the RAM TLB is left as it is
storage_close(s) ==
    [st |-> [s EXCEPT !.storage_is_open = FALSE,
                      !.st_flightplan_addr = NULL,
                      !.st_flightplan_entries = 0,
                      !.st_payload_addr = NULL,
                      !.st_payloads_entries = 0],
     rc |-> SCH_ST_OK]

storage_table_status_init(s) ==
    [st |-> s, rc |-> IF s.storage_is_open THEN SCH_ST_OK ELSE SCH_ST_ERROR]

\* drop = 0, the only value dat_repo_init passes
storage_table_flight_plan_init(s, n_entries) ==
    IF ~s.storage_is_open THEN [st |-> s, rc |-> SCH_ST_ERROR]
    ELSE IF s.st_flightplan_addr # NULL THEN [st |-> s, rc |-> SCH_ST_ERROR]
    ELSE storage_flightplan_load_tlb(
            [s EXCEPT !.st_flightplan_entries = n_entries,
                      !.st_flightplan_addr = FlightplanAddrTable,
                      !.st_flightplan_tlb = MemsetTlb])

\* drop = 0, the only value dat_repo_init passes
storage_table_payload_init(s, n_entries) ==
    IF ~s.storage_is_open THEN [st |-> s, rc |-> SCH_ST_ERROR]
    ELSE IF s.st_payload_addr # NULL THEN [st |-> s, rc |-> SCH_ST_ERROR]
    ELSE [st |-> [s EXCEPT !.st_payloads_entries = n_entries,
                           !.st_payload_addr = PayloadAddrTable(n_entries)],
          rc |-> 0]

(* ------------------------------------------------------------------ *)
(* Repository facade (repoData.c), each call run to completion         *)
(* ------------------------------------------------------------------ *)
\* data_map (repoDataSchema.h is not part of the sources): the status address
\* of each payload's index and the size of its records
data_map ==
    [p \in 0 .. (last_sensor - 1) |->
        [sys_index |-> 1 + p, size |-> IF p = 0 THEN ST_PAGE_SIZE \div 2 ELSE 200]]

dat_repo_init(s) ==
    LET s1 == storage_init(s).st
        s2 == storage_table_status_init(s1).st
        s3 == storage_table_payload_init(s2, last_sensor).st
    IN  storage_table_flight_plan_init(s3, SCH_FP_MAX_ENTRIES).st

dat_repo_close(s) == storage_close(s).st

\* rc | rc2 | rc3 on return codes
RcOr(a, b) == IF a = 0 THEN b ELSE IF b = 0 THEN a ELSE -1

_dat_set_system_var(s, index, value) ==
    storage_status_set_value_idx(s, index, value)

\* a variant that writes the first two copies only
set_status_var_two_copies(s, index, value) ==
    LET r1 == storage_status_set_value_idx(s, index, value)
    IN  storage_status_set_value_idx(r1.st, index + dat_status_last_address, value)

\* SCH_STORAGE_TRIPLE_WR == 1
dat_set_status_var(s, index, value) ==
    LET r1 == storage_status_set_value_idx(s, index, value)
        r2 == storage_status_set_value_idx(r1.st, index + dat_status_last_address, value)
        r3 == storage_status_set_value_idx(r2.st, index + dat_status_last_address * 2, value)
    IN  [st |-> r3.st, rc |-> RcOr(RcOr(r1.rc, r2.rc), r3.rc)]

dat_set_system_var(s, index, value) == dat_set_status_var(s, index, value)

\* a variant that returns the first copy without a vote
vote_first_copy(value_1, value_2, value_3) == value_1

\* lines 195-202: the comparison of the three copies
StatusVote(value_1, value_2, value_3) ==
    IF value_1 = value_2 \/ value_1 = value_3 THEN value_1
    ELSE IF value_2 = value_3 THEN value_2
    ELSE value_1

\* a variant that reads the first copy only
get_status_var_single_copy(s, index) ==
    storage_status_get_value_idx(s, index).value

\* SCH_STORAGE_TRIPLE_WR == 1
dat_get_status_var(s, index) ==
    LET value_1 == storage_status_get_value_idx(s, index).value
        value_2 == storage_status_get_value_idx(s, index + dat_status_last_var).value
        value_3 == storage_status_get_value_idx(s, index + dat_status_last_var * 2).value
    IN  StatusVote(value_1, value_2, value_3)

dat_get_system_var(s, index) == dat_get_status_var(s, index)

dat_set_fp(s, timetodo, command, args, executions, periodical) ==
    LET entries == dat_get_system_var(s, dat_fpl_queue)
        r == storage_flight_plan_set(s, timetodo, command, args, executions,
                                     periodical, SCH_COMM_NODE)
    IN  IF r.rc = SCH_ST_OK
        THEN [st |-> dat_set_system_var(r.st, dat_fpl_queue, entries + 1).st, rc |-> r.rc]
        ELSE r

\* returns the state, the code and the entry copied to the caller
dat_get_fp(s, elapsed_sec) ==
    LET entries == dat_get_system_var(s, dat_fpl_queue)
        g == storage_flight_plan_get_args(s, elapsed_sec)
        d == IF g.rc = SCH_ST_OK THEN storage_flight_plan_delete_row(s, elapsed_sec)
             ELSE [st |-> s, rc |-> g.rc]
    IN  IF d.rc = SCH_ST_OK
        THEN [st |-> dat_set_system_var(d.st, dat_fpl_queue, entries - 1).st,
              rc |-> d.rc, row |-> g.row]
        ELSE [st |-> d.st, rc |-> d.rc, row |-> g.row]

dat_del_fp(s, timetodo) ==
    LET entries == dat_get_system_var(s, dat_fpl_queue)
        r == storage_flight_plan_delete_row(s, timetodo)
    IN  IF r.rc = SCH_ST_OK
        THEN [st |-> dat_set_system_var(r.st, dat_fpl_queue, entries - 1).st, rc |-> r.rc]
        ELSE r

dat_reset_fp(s) ==
    LET r == storage_flight_plan_reset(s)
    IN  IF r.rc = SCH_ST_OK
        THEN [st |-> dat_set_system_var(r.st, dat_fpl_queue, 0).st, rc |-> r.rc]
        ELSE r

\* data_map[payload].sys_index is read before the check of payload: for
\* payload >= last_sensor that read is past data_map and its value is not used
\* dat_purge_fp lines 279-286, the for statement from slot i on: fp_i keeps what
\* the last storage_flight_plan_get_idx that succeeded left in it
RECURSIVE PurgeLoop(_, _, _, _, _)
PurgeLoop(s, i, fp_entries, fp_i, time_min) ==
    IF i >= SCH_FP_MAX_ENTRIES THEN [st |-> s, fp_entries |-> fp_entries]
    ELSE
      LET g == storage_flight_plan_get_idx(s, i, [NoRow EXCEPT !.unixtime = fp_i])
      IN  IF g.rc = SCH_ST_OK /\ g.row.unixtime > time_min
          THEN PurgeLoop(s, i + 1, fp_entries + 1, g.row.unixtime, time_min)
          ELSE IF g.row.unixtime # ST_FP_NULL
          THEN PurgeLoop(storage_flight_plan_delete_row_idx(s, i).st, i + 1,
                         fp_entries, g.row.unixtime, time_min)
          ELSE PurgeLoop(s, i + 1, fp_entries, g.row.unixtime, time_min)

\* dat_purge_fp, with now the value of dat_get_time() and fp_i0 what the
\* uninitialised local fp_i.unixtime holds at entry
dat_purge_fp(s, now, fp_i0) ==
    LET l == PurgeLoop(s, 0, 0, fp_i0, now + 1)
    IN  [st |-> dat_set_system_var(l.st, dat_fpl_queue, l.fp_entries).st,
         rc |-> SCH_ST_OK]

dat_add_payload_sample(s, data, payload) ==
    IF payload >= last_sensor THEN [st |-> s, rc |-> SCH_ST_ERROR]
    ELSE
    LET index == dat_get_system_var(s, data_map[payload].sys_index)
        r == storage_payload_set_data(s, payload, index, data, data_map[payload])
    IN  IF r.rc >= SCH_ST_OK
        THEN [st |-> dat_set_system_var(r.st, data_map[payload].sys_index, index + 1).st,
              rc |-> 0]
        ELSE [st |-> r.st, rc |-> -1]

dat_get_payload_sample(s, payload, index, data0) ==
    storage_payload_get_data(s, payload, index, data0, data_map[payload])

\* the loop of dat_delete_memory_sections over the payload indexes from i on
RECURSIVE ResetIndexesFrom(_, _)
ResetIndexesFrom(s, i) ==
    IF i >= last_sensor THEN s
    ELSE ResetIndexesFrom(dat_set_system_var(s, data_map[i].sys_index, 0).st, i + 1)

\* ret is assigned twice: the result of storage_payload_reset is overwritten
dat_delete_memory_sections(s) ==
    LET r1 == storage_payload_reset(s)
        r2 == storage_flight_plan_reset(r1.st)
        s3 == ResetIndexesFrom(r2.st, 0)
    IN  [st |-> dat_set_system_var(s3, dat_fpl_queue, 0).st, rc |-> r2.rc]

(* ------------------------------------------------------------------ *)
(* State                                                               *)
(* ------------------------------------------------------------------ *)
VARIABLES
    st,             \* the engine's statics and the media (flash, FRAM)
    ret,            \* the last completed call: operation and return code
    live,           \* history: how many times each unixtime is set and not deleted since
    fp_rows,        \* history: per TLB slot, the row passed to the fp_set that filled it
    threads,        \* per facade thread: position in its call and the call's locals
    repo_data_sem,  \* the repository mutex: 0 when free, else the thread holding it
    golden,         \* history: per status index, the value of the last dat_set_status_var
    faulty,         \* history: per status index, the copies overwritten since that set
    added           \* history: per payload, the samples passed to dat_add_payload_sample

vars == <<st, ret, live, fp_rows, threads, repo_data_sem, golden, faulty, added>>
engine_hist == <<live, fp_rows>>
conc_vars == <<threads, repo_data_sem>>
status_hist == <<golden, faulty>>
payload_hist == <<added>>

\* words the heap may hold right after a malloc'd address table
OobWords == {0, st_flightplan_base_addr}
\* the engine state during a call that finds the word oob there, and after it
Heap(s, oob) == [s EXCEPT !.oob_word = oob]
Settled(s) == [s EXCEPT !.oob_word = 0]

\* the statics after storage_init, storage_table_payload_init and
\* storage_table_flight_plan_init (dat_repo_init), TLB loaded from FRAM
OpenStorage(fram_tlb, fram_status, flash) ==
    [storage_is_open |-> TRUE,
     st_flightplan_addr |-> FlightplanAddrTable,
     st_flightplan_entries |-> SCH_FP_MAX_ENTRIES,
     st_payload_addr |-> PayloadAddrTable(last_sensor),
     st_payloads_entries |-> last_sensor,
     st_flightplan_tlb |-> fram_tlb,
     fram_tlb |-> fram_tlb,
     fram_status |-> fram_status,
     flash |-> flash,
     oob_word |-> 0,
     media_fault |-> FALSE]

StatusSlots == 0 .. (3 * dat_status_last_address - 1)

\* unixtimes used as arguments of get and delete
FpTimes == {ST_FP_NULL, 1, 2}
SetTimes == {1, 2}
NoLive == [t \in FpTimes |-> 0]
NoRows == [k \in TlbSlots |-> NoRow]

\* media on which the flight plan was reset, status table zeroed
InitStorage ==
    OpenStorage(ResetTlb, [i \in StatusSlots |-> 0], EmptyFlash)

\* the statics as the loader leaves them (zeroed RAM), the media kept
PowerOff(s) ==
    [storage_is_open |-> FALSE,
     st_flightplan_addr |-> NULL,
     st_flightplan_entries |-> 0,
     st_payload_addr |-> NULL,
     st_payloads_entries |-> 0,
     st_flightplan_tlb |-> [k \in 0 .. SCH_FP_MAX_ENTRIES |-> [addr |-> 0, unixtime |-> 0]],
     fram_tlb |-> s.fram_tlb,
     fram_status |-> s.fram_status,
     flash |-> s.flash,
     oob_word |-> 0,
     media_fault |-> s.media_fault]

\* the statics after a power cycle: dat_repo_init on the media s left behind;
\* storage_table_flight_plan_init zeroes the RAM TLB and reloads it with load_tlb
Rebooted(s) == dat_repo_init(PowerOff(s))

NoCall == [op |-> "none", rc |-> SCH_ST_OK]

Threads == 1 .. NThreads
\* a thread outside any facade call
IdleThread ==
    [pc |-> "idle", op |-> "none", timetodo |-> 0, entries |-> 0,
     i |-> 0, fp_entries |-> 0, fp_i |-> 0, calls |-> 0]

\* logical status indexes the status operations are called with
StatusIdx == {dat_fpl_queue, dat_status_last_address - 1}
NoValue == GARBAGE
NoSamples == [p \in 0 .. (last_sensor - 1) |-> << >>]

Init ==
    /\ st = InitStorage
    /\ ret = NoCall
    /\ live = NoLive
    /\ fp_rows = NoRows
    /\ threads = [self \in Threads |-> IdleThread]
    /\ repo_data_sem = 0
    /\ golden = [i \in StatusIdx |-> NoValue]
    /\ faulty = [i \in StatusIdx |-> {}]
    /\ added = NoSamples

(* ------------------------------------------------------------------ *)
(* Engine-level operations (one owner)                                 *)
(* ------------------------------------------------------------------ *)
\* a command name that fills the whole cmd buffer (no terminator fits)
LongCmd == [i \in 1 .. ST_CMD_MAX_STR_PARAMS |-> 7]

\* rows passed to fp_set; one has a name of 248 characters, the last a negative time
EngineRows ==
    { [unixtime |-> 1, executions |-> 1, periodical |-> 0, node |-> 1,
       cmd |-> <<1>>, args |-> << >>],
      [unixtime |-> 2, executions |-> 3, periodical |-> 5, node |-> 2,
       cmd |-> LongCmd, args |-> <<4>>],
      [unixtime |-> ST_FP_NULL, executions |-> 1, periodical |-> 0, node |-> 1,
       cmd |-> <<1>>, args |-> << >>] }

\* history kept beside a set: the slot that went from empty to filled records the row
RowsAfterSet(s0, s1, rows, row) ==
    [k \in TlbSlots |->
        IF s0.st_flightplan_tlb[k].unixtime = ST_FP_NULL
           /\ s1.st_flightplan_tlb[k].unixtime # ST_FP_NULL
        THEN row ELSE rows[k]]
\* history kept beside a delete: the slot that went from filled to empty forgets its row
RowsAfterDelete(s0, s1, rows) ==
    [k \in TlbSlots |->
        IF s0.st_flightplan_tlb[k].unixtime # ST_FP_NULL
           /\ s1.st_flightplan_tlb[k].unixtime = ST_FP_NULL
        THEN NoRow ELSE rows[k]]

\* history kept beside a delete by index or a purge: every slot that went from filled to empty takes
\* one from the count of its time
LiveAfterPurge(l, s0, s1) ==
    [t \in DOMAIN l |->
        l[t] - Cardinality({k \in TlbSlots :
                               /\ s0.st_flightplan_tlb[k].unixtime = t
                               /\ t # ST_FP_NULL
                               /\ s1.st_flightplan_tlb[k].unixtime = ST_FP_NULL})]

LiveAfterSet(l, t, rc) ==
    IF rc = SCH_ST_OK /\ t \in DOMAIN l THEN [l EXCEPT ![t] = @ + 1] ELSE l
LiveAfterDelete(l, t, rc) ==
    IF rc = SCH_ST_OK /\ t \in DOMAIN l /\ l[t] > 0 THEN [l EXCEPT ![t] = @ - 1] ELSE l

FpSet(row) ==
    \E oob \in OobWords :
      LET r == storage_flight_plan_set(Heap(st, oob), row.unixtime, row.cmd, row.args,
                                       row.executions, row.periodical, row.node)
      IN  /\ st' = Settled(r.st)
          /\ ret' = [op |-> "fp_set", rc |-> r.rc, timetodo |-> row.unixtime]
          /\ live' = LiveAfterSet(live, row.unixtime, r.rc)
          /\ fp_rows' = RowsAfterSet(st, r.st, fp_rows, row)
          /\ UNCHANGED <<conc_vars, status_hist, payload_hist>>

FpGet(t) ==
    LET g == storage_flight_plan_get_st(st, t, NoRow)
    IN  /\ ret' = [op |-> "fp_get", rc |-> g.rc, timetodo |-> t]
        /\ UNCHANGED <<st, live, fp_rows, conc_vars, status_hist, payload_hist>>

FpDelete(t) ==
    LET r == storage_flight_plan_delete_row(st, t)
    IN  /\ st' = r.st
        /\ ret' = [op |-> "fp_delete", rc |-> r.rc, timetodo |-> t]
        /\ live' = LiveAfterDelete(live, t, r.rc)
        /\ fp_rows' = RowsAfterDelete(st, r.st, fp_rows)
        /\ UNCHANGED <<conc_vars, status_hist, payload_hist>>

FpDeleteIdx(k) ==
    LET r == storage_flight_plan_delete_row_idx(st, k)
    IN  /\ st' = r.st
        /\ ret' = [op |-> "fp_delete_idx", rc |-> r.rc, index |-> k]
        /\ live' = LiveAfterPurge(live, st, r.st)
        /\ fp_rows' = RowsAfterDelete(st, r.st, fp_rows)
        /\ UNCHANGED <<conc_vars, status_hist, payload_hist>>

\* flight_plan_rebuild_tlb called on its own
FpRebuild ==
    \E oob \in OobWords :
      LET r == flight_plan_rebuild_tlb(Heap(st, oob))
      IN  /\ st' = Settled(r.st)
          /\ ret' = [op |-> "fp_rebuild", rc |-> r.rc]
          /\ UNCHANGED <<live, fp_rows, conc_vars, status_hist, payload_hist>>

FpReset ==
    LET r == storage_flight_plan_reset(st)
    IN  /\ st' = r.st
        /\ ret' = [op |-> "fp_reset", rc |-> r.rc]
        /\ live' = IF r.rc = SCH_ST_OK THEN NoLive ELSE live
        /\ fp_rows' = IF r.rc = SCH_ST_OK THEN NoRows ELSE fp_rows
        /\ UNCHANGED <<conc_vars, status_hist, payload_hist>>

\* power cycle: the statics are lost, dat_repo_init rebuilds them and
\* storage_table_flight_plan_init reloads the TLB from FRAM
Reboot ==
    /\ st' = Rebooted(st)
    /\ ret' = [op |-> "reboot", rc |-> SCH_ST_OK]
    /\ UNCHANGED <<live, fp_rows, conc_vars, status_hist, payload_hist>>

EngineNext ==
    \/ \E row \in EngineRows : FpSet(row)
    \/ \E t \in FpTimes : FpGet(t)
    \/ \E t \in FpTimes : FpDelete(t)
    \/ \E k \in 0 .. SCH_FP_MAX_ENTRIES : FpDeleteIdx(k)
    \/ FpRebuild
    \/ FpReset
    \/ Reboot

SpecEngine == Init /\ [][EngineNext]_vars

(* ------------------------------------------------------------------ *)
(* Properties of the flight-plan engine                                *)
(* ------------------------------------------------------------------ *)
\* C1: after any sequence of fp_set, fp_delete, fp_get (and fp_reset, reboot),
\* fp_get(t) returns ok exactly for the unixtimes t that were set with success
\* and not deleted since, and error for every other t
C1_LiveTimesRetrievable ==
    \A t \in FpTimes :
        (storage_flight_plan_get_st(st, t, NoRow).rc = SCH_ST_OK) <=> (live[t] > 0)

\* an fp_get that succeeded for time 2 while time 1, set earlier in slot 0, is deleted
C1_Witness ==
    /\ ret = [op |-> "fp_get", rc |-> SCH_ST_OK, timetodo |-> 2]
    /\ live[1] = 0 /\ live[2] > 0
    /\ st.st_flightplan_tlb[0].unixtime = ST_FP_NULL
    /\ st.st_flightplan_tlb[1].unixtime = 2

\* C2: for a live unixtime t whose entry was set with cmd and args shorter than
\* 248 bytes, fp_get(t) returns exactly the unixtime, executions, periodical, node,
\* cmd and args passed to the fp_set that filled the slot, whatever sets, deletes
\* and rebuilds happened in between (the append at cursor = commands_per_section included)
C2_ContentRoundTrip ==
    \A t \in SetTimes :
        LET k == storage_flightplan_find_index_tlb(st, t)
        IN  (/\ k >= 0
             /\ Len(fp_rows[k].cmd) < ST_CMD_MAX_STR_PARAMS
             /\ Len(fp_rows[k].args) < ST_CMD_MAX_STR_NAME)
            => storage_flight_plan_get_st(st, t, NoRow).row = fp_rows[k]

\* C3: after every completed fp_set, fp_delete, fp_reset or rebuild the TLB image
\* in non-volatile memory equals the RAM TLB (slots and metadata counter), and a
\* reboot leaves exactly the same unixtimes retrievable (tombstones stay deleted)
C3_TlbPersisted ==
    /\ st.fram_tlb = st.st_flightplan_tlb
    /\ \A t \in FpTimes :
          storage_flight_plan_get_st(Rebooted(st), t, NoRow).rc
            = storage_flight_plan_get_st(st, t, NoRow).rc

\* a reboot taken with slot 0 tombstoned and time 2 live in slot 1
C3_Witness ==
    /\ ret.op = "reboot"
    /\ st.st_flightplan_tlb[0] = EmptyTlbEntry
    /\ st.st_flightplan_tlb[1].unixtime = 2
    /\ live[1] = 0 /\ live[2] = 1

C21_DeleteTouchesOneSlot ==
    [][ret'.op \in {"fp_delete", "fp_delete_idx"} =>
          LET k == IF ret'.op = "fp_delete"
                   THEN storage_flightplan_find_index_tlb(st, ret'.timetodo)
                   ELSE ret'.index
          IN  IF ret'.rc = SCH_ST_OK
              THEN st' = [st EXCEPT !.st_flightplan_tlb[k] = EmptyTlbEntry,
                                    !.fram_tlb[k] = EmptyTlbEntry]
              ELSE st' = st]_vars

\* a delete by index emptied a live slot while the other slot is live and the
\* flash holds the pages of both
C21_Witness ==
    /\ ret.op = "fp_delete_idx" /\ ret.rc = SCH_ST_OK /\ ret.index = 0
    /\ st.st_flightplan_tlb[0] = EmptyTlbEntry
    /\ st.st_flightplan_tlb[1].unixtime = 2
    /\ live[1] = 0 /\ live[2] = 1
    /\ Cardinality(st.flash) = 2

\* C22: in every reachable state each non-empty TLB slot holds an address that is
\* a multiple of the page size and lies inside the flight-plan flash region
\* [st_flightplan_base_addr, st_flightplan_base_addr + st_flightplan_sections * SCH_SIZE_PER_SECTION)
C22_TlbAddrInRegion ==
    \A k \in TlbSlots :
        st.st_flightplan_tlb[k].unixtime # ST_FP_NULL =>
            /\ st.st_flightplan_tlb[k].addr % ST_PAGE_SIZE = 0
            /\ st.st_flightplan_tlb[k].addr >= st_flightplan_base_addr
            /\ st.st_flightplan_tlb[k].addr
                  < st_flightplan_base_addr + st_flightplan_sections * SCH_SIZE_PER_SECTION

\* C23: in every reachable state no two non-empty TLB slots hold the same flash
\* address
C23_TlbAddrDistinct ==
    \A j, k \in TlbSlots :
        (j # k /\ st.st_flightplan_tlb[j].unixtime # ST_FP_NULL
               /\ st.st_flightplan_tlb[k].unixtime # ST_FP_NULL)
            => st.st_flightplan_tlb[j].addr # st.st_flightplan_tlb[k].addr

(* ------------------------------------------------------------------ *)
(* Facade calls of one thread, each run to completion                  *)
(* ------------------------------------------------------------------ *)
\* entries passed to dat_set_fp; the last has a negative time
FacadeRows ==
    { [unixtime |-> 1, executions |-> 1, periodical |-> 0, node |-> SCH_COMM_NODE,
       cmd |-> <<1>>, args |-> << >>],
      [unixtime |-> 2, executions |-> 2, periodical |-> 5, node |-> SCH_COMM_NODE,
       cmd |-> <<2>>, args |-> <<3>>],
      [unixtime |-> ST_FP_NULL, executions |-> 1, periodical |-> 0, node |-> SCH_COMM_NODE,
       cmd |-> <<1>>, args |-> << >>] }

\* number of live (non-tombstoned) TLB slots
LiveSlots(s) ==
    Cardinality({k \in TlbSlots : s.st_flightplan_tlb[k].unixtime # ST_FP_NULL})

DatSetFp(row) ==
    \E oob \in OobWords :
      LET r == dat_set_fp(Heap(st, oob), row.unixtime, row.cmd, row.args,
                          row.executions, row.periodical)
      IN  /\ st' = Settled(r.st)
          /\ ret' = [op |-> "dat_set_fp", rc |-> r.rc]
          /\ live' = LiveAfterSet(live, row.unixtime, r.rc)
          /\ fp_rows' = RowsAfterSet(st, r.st, fp_rows, row)
          /\ UNCHANGED <<conc_vars, status_hist, payload_hist>>

DatGetFp(t) ==
    LET r == dat_get_fp(st, t)
    IN  /\ st' = r.st
        /\ ret' = [op |-> "dat_get_fp", rc |-> r.rc]
        /\ live' = LiveAfterDelete(live, t, r.rc)
        /\ fp_rows' = RowsAfterDelete(st, r.st, fp_rows)
        /\ UNCHANGED <<conc_vars, status_hist, payload_hist>>

DatDelFp(t) ==
    /\ dat_get_system_var(st, dat_fpl_queue) > 0 - MaxQueueDrift
    /\ LET r == dat_del_fp(st, t)
       IN  /\ st' = r.st
           /\ ret' = [op |-> "dat_del_fp", rc |-> r.rc]
           /\ live' = LiveAfterDelete(live, t, r.rc)
           /\ fp_rows' = RowsAfterDelete(st, r.st, fp_rows)
           /\ UNCHANGED <<conc_vars, status_hist, payload_hist>>

DatResetFp ==
    LET r == dat_reset_fp(st)
    IN  /\ st' = r.st
        /\ ret' = [op |-> "dat_reset_fp", rc |-> r.rc]
        /\ live' = IF r.rc = SCH_ST_OK THEN NoLive ELSE live
        /\ fp_rows' = IF r.rc = SCH_ST_OK THEN NoRows ELSE fp_rows
        /\ UNCHANGED <<conc_vars, status_hist, payload_hist>>

FacadeNext ==
    \/ \E row \in FacadeRows : DatSetFp(row)
    \/ \E t \in FpTimes : DatGetFp(t)
    \/ \E t \in FpTimes : DatDelFp(t)
    \/ DatResetFp

\* Init is the state dat_reset_fp leaves on a fresh repository
SpecFacade == Init /\ [][FacadeNext]_vars

\* C4: in one thread, from dat_reset_fp on, after any sequence of dat_set_fp,
\* dat_get_fp, dat_del_fp and dat_reset_fp the status variable fpl_queue equals
\* the number of live (non-tombstoned) flight-plan TLB slots
C4_QueueCountsLiveSlots ==
    dat_get_system_var(st, dat_fpl_queue) = LiveSlots(st)


\* C18: when every TLB slot holds a live entry, dat_set_fp returns an error, every
\* time reads back as it did before the call (found or not, and the same
\* content), the counter of the metadata entry is not advanced and fpl_queue
\* is unchanged
C18_FullTableRejects ==
    [][(ret'.op = "dat_set_fp"
        /\ \A k \in TlbSlots : st.st_flightplan_tlb[k].unixtime # ST_FP_NULL) =>
          /\ ret'.rc = SCH_ST_ERROR
          /\ \A t \in FpTimes : storage_flight_plan_get_st(st', t, NoRow)
                                  = storage_flight_plan_get_st(st, t, NoRow)
          /\ st'.st_flightplan_tlb[SCH_FP_MAX_ENTRIES].unixtime
                <= st.st_flightplan_tlb[SCH_FP_MAX_ENTRIES].unixtime
          /\ dat_get_system_var(st', dat_fpl_queue)
                = dat_get_system_var(st, dat_fpl_queue)]_vars

(* ------------------------------------------------------------------ *)
(* Counters of the facade: fpl_queue and the payload indexes            *)
(* ------------------------------------------------------------------ *)
\* payload ids passed to dat_add_payload_sample (last_sensor is no payload)
PayloadIds == 0 .. last_sensor
\* the sample passed to dat_add_payload_sample
Samples == {7}
CounterRows == {row \in FacadeRows : row.unixtime # 2}
CounterTimes == {1}

\* samples a payload with records of that size holds: K sections of samples_per_section
PayloadCapacity(size) ==
    SCH_SECTIONS_PER_PAYLOAD * ((ST_PAGE_SIZE \div size) * PagesPerSection)

\* the history after dat_add_payload_sample(data, payload): the sample of the first
\* call made at each value of the payload's index below its capacity
AddedAfter(s, data, payload) ==
    IF payload >= last_sensor THEN added
    ELSE LET index == dat_get_system_var(s, data_map[payload].sys_index)
         IN  IF index < PayloadCapacity(data_map[payload].size)
                  /\ Len(added[payload]) = index
             THEN [added EXCEPT ![payload] = Append(@, data)]
             ELSE added

DatAddPayloadSample(data, payload) ==
    \E oob \in OobWords :
      LET r == dat_add_payload_sample(Heap(st, oob), data, payload)
      IN  /\ st' = Settled(r.st)
          /\ ret' = [op |-> "dat_add_payload_sample", rc |-> r.rc]
          /\ added' = AddedAfter(st, data, payload)
          /\ UNCHANGED <<engine_hist, conc_vars, status_hist>>

DatDeleteMemorySections ==
    LET r == dat_delete_memory_sections(st)
    IN  /\ st' = r.st
        /\ ret' = [op |-> "dat_delete_memory_sections", rc |-> r.rc]
        /\ live' = IF r.rc = SCH_ST_OK THEN NoLive ELSE live
        /\ fp_rows' = IF r.rc = SCH_ST_OK THEN NoRows ELSE fp_rows
        /\ added' = NoSamples
        /\ UNCHANGED <<conc_vars, status_hist>>

DatRepoClose ==
    /\ st' = dat_repo_close(st)
    /\ ret' = [op |-> "dat_repo_close", rc |-> SCH_ST_OK]
    /\ UNCHANGED <<engine_hist, conc_vars, status_hist, payload_hist>>

CountersNext ==
    \/ \E row \in CounterRows : DatSetFp(row)
    \/ \E t \in CounterTimes : DatGetFp(t)
    \/ \E t \in CounterTimes : DatDelFp(t)
    \/ \E data \in Samples, payload \in PayloadIds : DatAddPayloadSample(data, payload)
    \/ DatDeleteMemorySections
    \/ DatRepoClose

SpecCounters == Init /\ [][CountersNext]_vars

\* fpl_queue and the index of every payload
Counters(s) ==
    [fpl_queue |-> dat_get_system_var(s, dat_fpl_queue),
     sys_index |-> [p \in 0 .. (last_sensor - 1) |->
                      dat_get_system_var(s, data_map[p].sys_index)]]

CountingCalls ==
    {"dat_set_fp", "dat_get_fp", "dat_del_fp", "dat_add_payload_sample",
     "dat_delete_memory_sections"}

\* C7: a dat_set_fp, dat_get_fp, dat_del_fp or dat_add_payload_sample call that
\* returns an error leaves fpl_queue and the payload indexes unchanged, and a
\* dat_delete_memory_sections that returns an error (a reset failed) does not
\* zero the counters
C7_CountersOnlyOnSuccess ==
    [][(ret'.op \in CountingCalls /\ ret'.rc # SCH_ST_OK)
          => Counters(st') = Counters(st)]_vars

(* ------------------------------------------------------------------ *)
(* Status variables: triple write, triple read                         *)
(* ------------------------------------------------------------------ *)
\* values written to status variables
StatusValues == {0, 1, 2}
Copies == {0, 1, 2}

DatSetStatusVar(index, value) ==
    LET r == dat_set_status_var(st, index, value)
    IN  /\ st' = r.st
        /\ ret' = [op |-> "dat_set_status_var", rc |-> r.rc]
        /\ golden' = IF r.rc = 0 THEN [golden EXCEPT ![index] = value] ELSE golden
        /\ faulty' = IF r.rc = 0 THEN [faulty EXCEPT ![index] = {}] ELSE faulty
        /\ UNCHANGED <<engine_hist, conc_vars, payload_hist>>

\* ret.rc holds the value returned
DatGetStatusVar(index) ==
    /\ ret' = [op |-> "dat_get_status_var", rc |-> dat_get_status_var(st, index)]
    /\ UNCHANGED <<st, engine_hist, conc_vars, status_hist, payload_hist>>

\* one physical copy of a variable is overwritten with a different value
\* through _dat_set_system_var
OverwriteCopy(index, copy, value) ==
    LET slot == index + copy * dat_status_last_address
        r == _dat_set_system_var(st, slot, value)
    IN  /\ storage_status_get_value_idx(st, slot).value # value
        /\ st' = r.st
        /\ ret' = [op |-> "_dat_set_system_var", rc |-> r.rc]
        /\ faulty' = [faulty EXCEPT ![index] = @ \cup {copy}]
        /\ UNCHANGED <<golden, engine_hist, conc_vars, payload_hist>>

StatusNext ==
    \/ \E index \in StatusIdx, value \in StatusValues : DatSetStatusVar(index, value)
    \/ \E index \in StatusIdx : DatGetStatusVar(index)
    \/ \E index \in StatusIdx, copy \in Copies, value \in StatusValues :
          OverwriteCopy(index, copy, value)

SpecStatus == Init /\ [][StatusNext]_vars

\* C8: dat_set_status_var(i, v) followed by dat_get_status_var(i) returns v, and
\* still returns v after any one of the three physical copies was overwritten
\* with a different value
C8_StatusRoundTrip ==
    \A index \in StatusIdx :
        (golden[index] # NoValue /\ Cardinality(faulty[index]) <= 1)
            => dat_get_status_var(st, index) = golden[index]

\* a read of variable 0 that returned the value set, 2, while its first copy holds 1
C8_Witness ==
    /\ ret = [op |-> "dat_get_status_var", rc |-> 2]
    /\ golden[dat_fpl_queue] = 2 /\ faulty[dat_fpl_queue] = {0}
    /\ st.fram_status[dat_fpl_queue] = 1
    /\ golden[dat_status_last_address - 1] = NoValue
    /\ faulty[dat_status_last_address - 1] = {}

\* C9: after a successful dat_set_status_var(i, v) the physical slots i, i + N_vars
\* and i + 2 N_vars, the slots dat_get_status_var(i) reads, all hold v and lie
\* inside the table of 3 N_vars slots declared at init
C9_ThreeCopiesWritten ==
    \A index \in StatusIdx :
        (golden[index] # NoValue /\ faulty[index] = {})
            => \A copy \in Copies :
                 /\ index + copy * dat_status_last_var < 3 * dat_status_last_var
                 /\ storage_status_get_value_idx(
                        st, index + copy * dat_status_last_var).value = golden[index]

\* the last variable was just set to 1 and its third copy holds 1
C9_Witness ==
    /\ ret = [op |-> "dat_set_status_var", rc |-> SCH_ST_OK]
    /\ golden[dat_status_last_address - 1] = 1
    /\ faulty[dat_status_last_address - 1] = {}
    /\ st.fram_status[3 * dat_status_last_address - 1] = 1
    /\ golden[dat_fpl_queue] = NoValue

\* C10: for all copies v1, v2, v3 dat_get_status_var returns v1 if v1 = v2 or
\* v1 = v3, else v2 if v2 = v3, else v1; it returns one of the copies in every case
C10_VoteIsReference ==
    \A index \in StatusIdx :
        LET v1 == st.fram_status[index]
            v2 == st.fram_status[index + dat_status_last_var]
            v3 == st.fram_status[index + 2 * dat_status_last_var]
            got == dat_get_status_var(st, index)
        IN  /\ got = IF v1 = v2 \/ v1 = v3 THEN v1 ELSE IF v2 = v3 THEN v2 ELSE v1
            /\ got \in {v1, v2, v3}
            /\ (ret.op = "dat_get_status_var") => ret.rc \in StatusValues

\* a read of variable 0 that returned the first of three different copies
C10_Witness ==
    /\ ret = [op |-> "dat_get_status_var", rc |-> 1]
    /\ st.fram_status[dat_fpl_queue] = 1
    /\ st.fram_status[dat_fpl_queue + dat_status_last_var] = 2
    /\ st.fram_status[dat_fpl_queue + 2 * dat_status_last_var] = 0
    /\ \A copy \in Copies :
          st.fram_status[dat_status_last_var - 1 + copy * dat_status_last_var] = 0

(* ------------------------------------------------------------------ *)
(* Facade calls of several threads, one step per semaphore operation   *)
(* and per critical section                                            *)
(* ------------------------------------------------------------------ *)
\* times the threads pass to dat_set_fp, dat_get_fp and dat_del_fp
ConcTimes == {2}
\* values of dat_get_time() seen by dat_purge_fp
NowTimes == {0, 2}
RowOfTime(t) == CHOOSE row \in FacadeRows : row.unixtime = t

\* the thread enters a call: its locals are fresh
Enter(self, op, timetodo) ==
    /\ threads[self].pc = "idle"
    /\ threads[self].calls < MaxCalls
    /\ threads' = [threads EXCEPT ![self] =
                      [IdleThread EXCEPT !.pc = "read_take", !.op = op,
                                         !.timetodo = timetodo,
                                         !.calls = threads[self].calls]]
    /\ UNCHANGED <<st, ret, engine_hist, repo_data_sem, status_hist, payload_hist>>

\* the thread returns rc from its call
Return(self, rc) ==
    /\ threads' = [threads EXCEPT ![self] =
                      [IdleThread EXCEPT !.calls = threads[self].calls + 1]]
    /\ ret' = [op |-> threads[self].op, rc |-> rc]

CallSetFp(self, timetodo) == Enter(self, "dat_set_fp", timetodo)
CallGetFp(self, elapsed_sec) == Enter(self, "dat_get_fp", elapsed_sec)
CallDelFp(self, timetodo) == Enter(self, "dat_del_fp", timetodo)

\* dat_get_status_var, line 177: osSemaphoreTake
ReadTake(self) ==
    /\ threads[self].pc = "read_take"
    /\ repo_data_sem = 0
    /\ repo_data_sem' = self
    /\ threads' = [threads EXCEPT ![self].pc = "read_call"]
    /\ UNCHANGED <<st, ret, engine_hist, status_hist, payload_hist>>

\* dat_get_status_var, lines 179-202: the three reads, osSemaphoreGiven, the vote;
\* the caller keeps the result in entries
ReadCall(self) ==
    /\ threads[self].pc = "read_call"
    /\ repo_data_sem' = 0
    /\ threads' = [threads EXCEPT ![self].pc = "fp_take",
                                  ![self].entries = dat_get_system_var(st, dat_fpl_queue)]
    /\ UNCHANGED <<st, ret, engine_hist, status_hist, payload_hist>>

\* dat_set_fp line 215, dat_get_fp line 231, dat_del_fp line 250: osSemaphoreTake
FpTake(self) ==
    /\ threads[self].pc = "fp_take"
    /\ repo_data_sem = 0
    /\ repo_data_sem' = self
    /\ threads' = [threads EXCEPT ![self].pc = "fp_call"]
    /\ UNCHANGED <<st, ret, engine_hist, status_hist, payload_hist>>

\* after the critical section: on success go on to write fpl_queue, else return
AfterFpCall(self, rc) ==
    IF rc = SCH_ST_OK
    THEN /\ threads' = [threads EXCEPT ![self].pc = "write_take"]
         /\ UNCHANGED ret
    ELSE Return(self, rc)

\* dat_set_fp lines 217-219: storage_flight_plan_set, osSemaphoreGiven
SetFpCall(self) ==
    /\ threads[self].pc = "fp_call" /\ threads[self].op = "dat_set_fp"
    /\ \E oob \in OobWords :
         LET row == RowOfTime(threads[self].timetodo)
             r == storage_flight_plan_set(Heap(st, oob), row.unixtime, row.cmd, row.args,
                                          row.executions, row.periodical, SCH_COMM_NODE)
         IN  /\ st' = Settled(r.st)
             /\ live' = LiveAfterSet(live, row.unixtime, r.rc)
             /\ fp_rows' = RowsAfterSet(st, r.st, fp_rows, row)
             /\ AfterFpCall(self, r.rc)
    /\ repo_data_sem' = 0
    /\ UNCHANGED <<status_hist, payload_hist>>

\* a variant of the critical section of dat_get_fp that returns on the error
\* path without osSemaphoreGiven
get_fp_call_keeps_sem(self) ==
    /\ threads[self].pc = "fp_call" /\ threads[self].op = "dat_get_fp"
    /\ LET elapsed_sec == threads[self].timetodo
           g == storage_flight_plan_get_args(st, elapsed_sec)
           d == IF g.rc = SCH_ST_OK THEN storage_flight_plan_delete_row(st, elapsed_sec)
                ELSE [st |-> st, rc |-> g.rc]
       IN  /\ st' = d.st
           /\ live' = LiveAfterDelete(live, elapsed_sec, d.rc)
           /\ fp_rows' = RowsAfterDelete(st, d.st, fp_rows)
           /\ AfterFpCall(self, d.rc)
           /\ repo_data_sem' = IF d.rc = SCH_ST_OK THEN 0 ELSE repo_data_sem
    /\ UNCHANGED <<status_hist, payload_hist>>

\* dat_get_fp lines 233-239: storage_flight_plan_get_args, storage_flight_plan_delete_row,
\* osSemaphoreGiven
GetFpCall(self) ==
    /\ threads[self].pc = "fp_call" /\ threads[self].op = "dat_get_fp"
    /\ LET elapsed_sec == threads[self].timetodo
           g == storage_flight_plan_get_args(st, elapsed_sec)
           d == IF g.rc = SCH_ST_OK THEN storage_flight_plan_delete_row(st, elapsed_sec)
                ELSE [st |-> st, rc |-> g.rc]
       IN  /\ st' = d.st
           /\ live' = LiveAfterDelete(live, elapsed_sec, d.rc)
           /\ fp_rows' = RowsAfterDelete(st, d.st, fp_rows)
           /\ AfterFpCall(self, d.rc)
    /\ repo_data_sem' = 0
    /\ UNCHANGED <<status_hist, payload_hist>>

\* dat_del_fp lines 252-254: storage_flight_plan_delete_row, osSemaphoreGiven
DelFpCall(self) ==
    /\ threads[self].pc = "fp_call" /\ threads[self].op = "dat_del_fp"
    /\ LET r == storage_flight_plan_delete_row(st, threads[self].timetodo)
       IN  /\ st' = r.st
           /\ live' = LiveAfterDelete(live, threads[self].timetodo, r.rc)
           /\ fp_rows' = RowsAfterDelete(st, r.st, fp_rows)
           /\ AfterFpCall(self, r.rc)
    /\ repo_data_sem' = 0
    /\ UNCHANGED <<status_hist, payload_hist>>

\* dat_set_status_var, line 143: osSemaphoreTake
WriteTake(self) ==
    /\ threads[self].pc = "write_take"
    /\ repo_data_sem = 0
    /\ repo_data_sem' = self
    /\ threads' = [threads EXCEPT ![self].pc = "write_call"]
    /\ UNCHANGED <<st, ret, engine_hist, status_hist, payload_hist>>

\* the value the call writes to fpl_queue: entries+1 (line 221), --entries
\* (lines 242, 256), fp_entries (line 287)
NewQueue(th) ==
    CASE th.op = "dat_set_fp" -> th.entries + 1
      [] th.op = "dat_purge_fp" -> th.fp_entries
      [] OTHER -> th.entries - 1

\* dat_set_status_var, lines 145-154: the three writes, osSemaphoreGiven; the call
\* returns the code of its storage call (dat_purge_fp: SCH_ST_OK)
WriteCall(self) ==
    /\ threads[self].pc = "write_call"
    /\ st' = dat_set_system_var(st, dat_fpl_queue, NewQueue(threads[self])).st
    /\ repo_data_sem' = 0
    /\ Return(self, SCH_ST_OK)
    /\ UNCHANGED <<engine_hist, status_hist, payload_hist>>

ConcStep(self) ==
    \/ \E t \in ConcTimes : CallSetFp(self, t)
    \/ \E t \in ConcTimes : CallGetFp(self, t)
    \/ \E t \in ConcTimes : CallDelFp(self, t)
    \/ ReadTake(self)
    \/ ReadCall(self)
    \/ FpTake(self)
    \/ SetFpCall(self)
    \/ GetFpCall(self)
    \/ DelFpCall(self)
    \/ WriteTake(self)
    \/ WriteCall(self)

ConcNext == \E self \in Threads : ConcStep(self)

SpecConc == Init /\ [][ConcNext]_vars

AllReturned == \A self \in Threads : threads[self].pc = "idle"

\* C5: when several threads call dat_set_fp, dat_get_fp and dat_del_fp concurrently,
\* once all calls have returned fpl_queue equals the number of live flight-plan
\* entries (no counter update is lost)
C5_NoLostQueueUpdate ==
    AllReturned => dat_get_system_var(st, dat_fpl_queue) = LiveSlots(st)

(* ------------------------------------------------------------------ *)
(* dat_purge_fp beside the other calls                                 *)
(* ------------------------------------------------------------------ *)
\* what the uninitialised fp_i.unixtime may hold when the loop starts
UninitTimes == {ST_FP_NULL, GARBAGE}

\* dat_purge_fp lines 276-278: time_min (kept in timetodo) is dat_get_time() + 1
CallPurgeFp(self, now, fp_i0) ==
    /\ threads[self].pc = "idle"
    /\ threads[self].calls < MaxCalls
    /\ threads' = [threads EXCEPT ![self] =
                      [IdleThread EXCEPT !.pc = "purge_get", !.op = "dat_purge_fp",
                                         !.timetodo = now + 1, !.fp_i = fp_i0,
                                         !.calls = threads[self].calls]]
    /\ UNCHANGED <<st, ret, engine_hist, repo_data_sem, status_hist, payload_hist>>

\* the for statement of dat_purge_fp going on to slot i + 1, or leaving the loop
\* for dat_set_system_var (line 287)
PurgeLoopPc(i) == IF i + 1 < SCH_FP_MAX_ENTRIES THEN "purge_get" ELSE "write_take"

\* dat_purge_fp lines 281-284: storage_flight_plan_get_idx and the two tests;
\* no osSemaphoreTake precedes the call
PurgeGetIdx(self) ==
    LET th == threads[self]
        g == storage_flight_plan_get_idx(st, th.i, [NoRow EXCEPT !.unixtime = th.fp_i])
    IN  /\ th.pc = "purge_get"
        /\ threads' =
              IF g.rc = SCH_ST_OK /\ g.row.unixtime > th.timetodo
              THEN [threads EXCEPT ![self].fp_i = g.row.unixtime,
                                   ![self].fp_entries = th.fp_entries + 1,
                                   ![self].i = th.i + 1,
                                   ![self].pc = PurgeLoopPc(th.i)]
              ELSE IF g.row.unixtime # ST_FP_NULL
              THEN [threads EXCEPT ![self].fp_i = g.row.unixtime,
                                   ![self].pc = "purge_del"]
              ELSE [threads EXCEPT ![self].fp_i = g.row.unixtime,
                                   ![self].i = th.i + 1,
                                   ![self].pc = PurgeLoopPc(th.i)]
        /\ UNCHANGED <<st, ret, engine_hist, repo_data_sem, status_hist, payload_hist>>

\* dat_purge_fp line 285: storage_flight_plan_delete_row_idx; no osSemaphoreTake
\* precedes the call
PurgeDeleteIdx(self) ==
    LET th == threads[self]
        r == storage_flight_plan_delete_row_idx(st, th.i)
    IN  /\ th.pc = "purge_del"
        /\ st' = r.st
        /\ live' = LiveAfterDelete(live, st.st_flightplan_tlb[th.i].unixtime, r.rc)
        /\ fp_rows' = RowsAfterDelete(st, r.st, fp_rows)
        /\ threads' = [threads EXCEPT ![self].i = th.i + 1,
                                      ![self].pc = PurgeLoopPc(th.i)]
        /\ UNCHANGED <<ret, repo_data_sem, status_hist, payload_hist>>

PurgeStep(self) ==
    \/ \E now \in NowTimes, fp_i0 \in UninitTimes : CallPurgeFp(self, now, fp_i0)
    \/ PurgeGetIdx(self)
    \/ PurgeDeleteIdx(self)

SemNext == \E self \in Threads : ConcStep(self) \/ PurgeStep(self)

SpecSem == Init /\ [][SemNext]_vars

\* the positions at which a thread is inside a storage-engine call
EngineCallPcs == {"read_call", "fp_call", "write_call", "purge_get", "purge_del"}

\* C6: every call the facade makes into the storage engine, those of dat_purge_fp
\* included, runs while the calling thread holds repo_data_sem, so the engine
\* calls of two threads never overlap
C6_EngineCallsHoldSem ==
    /\ \A self \in Threads :
          threads[self].pc \in EngineCallPcs => repo_data_sem = self
    /\ \A self, other \in Threads :
          (self # other /\ threads[self].pc \in EngineCallPcs)
            => threads[other].pc \notin EngineCallPcs


(* ------------------------------------------------------------------ *)
(* dat_purge_fp run to completion by one thread                        *)
(* ------------------------------------------------------------------ *)
\* values of dat_get_time() seen by dat_purge_fp
PurgeNow == {0, 1, 2}

DatPurgeFp(now, fp_i0) ==
    LET r == dat_purge_fp(st, now, fp_i0)
    IN  /\ st' = r.st
        /\ ret' = [op |-> "dat_purge_fp", rc |-> r.rc, now |-> now]
        /\ live' = LiveAfterPurge(live, st, r.st)
        /\ fp_rows' = RowsAfterDelete(st, r.st, fp_rows)
        /\ UNCHANGED <<conc_vars, status_hist, payload_hist>>

PurgeNext ==
    \/ \E row \in FacadeRows : DatSetFp(row)
    \/ \E t \in FpTimes : DatGetFp(t)
    \/ \E now \in PurgeNow, fp_i0 \in UninitTimes : DatPurgeFp(now, fp_i0)

SpecPurge == Init /\ [][PurgeNext]_vars

\* C19: dat_purge_fp called at time now empties every slot whose entry has
\* unixtime <= now, leaves every slot whose entry has unixtime > now (now + 1
\* included) as it was, and sets fpl_queue to the number of live slots left
C19_PurgeDeletesPast ==
    [][ret'.op = "dat_purge_fp" =>
          /\ \A k \in TlbSlots :
                LET t == st.st_flightplan_tlb[k].unixtime
                IN  /\ (t # ST_FP_NULL /\ t <= ret'.now) =>
                           st'.st_flightplan_tlb[k].unixtime = ST_FP_NULL
                    /\ t > ret'.now =>
                           st'.st_flightplan_tlb[k] = st.st_flightplan_tlb[k]
          /\ dat_get_system_var(st', dat_fpl_queue) = LiveSlots(st')]_vars

(* ------------------------------------------------------------------ *)
(* Payload storage, engine level (one owner)                           *)
(* ------------------------------------------------------------------ *)
\* record sizes of the schema passed: one that divides the page, one that does not
RecordSizes == {ST_PAGE_SIZE \div 2, 200}
SamplesPerSection(size) == (ST_PAGE_SIZE \div size) * PagesPerSection
\* sample indexes: first, last of the first page, first of the second section,
\* last within capacity, first beyond capacity, and one section further
SampleIdx ==
    LET size == ST_PAGE_SIZE \div 2
    IN  {0, (ST_PAGE_SIZE \div size) - 1, SamplesPerSection(size),
         PayloadCapacity(size) - 1, PayloadCapacity(size),
         PayloadCapacity(size) + SamplesPerSection(size)}
PayloadData == {7, 8}
NoData == GARBAGE

PayloadSet(payload, index, data, size) ==
    /\ Cardinality(st.flash) < MaxRecords
    /\ \E oob \in OobWords :
         LET r == storage_payload_set_data(Heap(st, oob), payload, index, data,
                                           [size |-> size])
         IN  /\ st' = Settled(r.st)
             /\ ret' = [op |-> "payload_set", rc |-> r.rc, payload |-> payload,
                        index |-> index, size |-> size, data |-> data]
             /\ UNCHANGED <<engine_hist, conc_vars, status_hist, payload_hist>>

PayloadGet(payload, index, size) ==
    \E oob \in OobWords :
      LET g == storage_payload_get_data(Heap(st, oob), payload, index, NoData,
                                        [size |-> size])
      IN  /\ ret' = [op |-> "payload_get", rc |-> g.rc, payload |-> payload,
                     index |-> index, size |-> size, data |-> g.data]
          /\ UNCHANGED <<st, engine_hist, conc_vars, status_hist, payload_hist>>

PayloadReset ==
    LET r == storage_payload_reset(st)
    IN  /\ st' = r.st
        /\ ret' = [op |-> "payload_reset", rc |-> r.rc]
        /\ UNCHANGED <<engine_hist, conc_vars, status_hist, payload_hist>>

PayloadResetTable(payload) ==
    \E oob \in OobWords :
      LET r == storage_payload_reset_table(Heap(st, oob), payload)
      IN  /\ st' = Settled(r.st)
          /\ ret' = [op |-> "payload_reset_table", rc |-> r.rc, payload |-> payload]
          /\ UNCHANGED <<engine_hist, conc_vars, status_hist, payload_hist>>

PayloadNext ==
    \/ \E payload \in PayloadIds, index \in SampleIdx, data \in PayloadData,
          size \in RecordSizes : PayloadSet(payload, index, data, size)
    \/ \E payload \in PayloadIds, index \in SampleIdx, size \in RecordSizes :
          PayloadGet(payload, index, size)
    \/ PayloadReset
    \/ \E payload \in PayloadIds : PayloadResetTable(payload)

SpecPayload == Init /\ [][PayloadNext]_vars

\* the last call was a payload_set or payload_get with a payload and an index in range
InRangeCall(r) ==
    /\ r.op \in {"payload_set", "payload_get"}
    /\ r.payload < last_sensor
    /\ r.index < PayloadCapacity(r.size)

\* C11: for every payload p < P, record size and index i below the payload's
\* capacity, payload_set(p, i, x) returns ok and a payload_get(p, i) that follows
\* returns ok and x (sizes that divide the page, whose last record of a page ends
\* on the page boundary, included)
C11_PayloadRoundTrip ==
    (ret.op = "payload_set" /\ InRangeCall(ret))
        => /\ ret.rc = SCH_ST_OK
           /\ storage_payload_get_data(st, ret.payload, ret.index, NoData,
                                       [size |-> ret.size])
                = [rc |-> SCH_ST_OK, data |-> ret.data]

\* the address of sample index of payload by the reference formula
ReferenceAddress(s, payload, index, size) ==
    LET samples_per_page == ST_PAGE_SIZE \div size
        pages == SCH_SIZE_PER_SECTION \div ST_PAGE_SIZE
        samples_per_section == samples_per_page * pages
    IN  s.st_payload_addr[payload * SCH_SECTIONS_PER_PAYLOAD
                             + (index \div samples_per_section) + 1]
          + ((index \div samples_per_page) % pages) * ST_PAGE_SIZE
          + (index % samples_per_page) * size

\* C12: for every payload, index within capacity and record size a payload_set or
\* payload_get is called with, the address computed by _get_sample_address is the
\* reference address; the page offset is taken modulo the pages of one section
C12_AddressIsReference ==
    InRangeCall(ret)
        => _get_sample_address(st, ret.payload, ret.index, ret.size).address
              = ReferenceAddress(st, ret.payload, ret.index, ret.size)

\* addresses handed to the checked accesses: page starts of the payload area and
\* offsets inside a page
AccessAddrs ==
    {st_payload_base_addr + k * ST_PAGE_SIZE + off :
        k \in 0 .. PagesPerSection, off \in {0, 200, ST_PAGE_SIZE \div 2, 400}}
CrossesPage(addr, size) == PageOf(addr + size - 1) # PageOf(addr)

\* C13: a checked write or read that returns ok touched bytes [addr, addr + size)
\* inside one 512-byte page; one that would cross a page boundary returns error
\* and leaves the flash and the caller's buffer as they were
C13_AccessWithinPage ==
    /\ (ret.op = "payload_set" /\ ret.rc = SCH_ST_OK)
          => \E r \in st.flash :
                /\ r.size = ret.size /\ r.data = ret.data
                /\ ~CrossesPage(r.addr, r.size)
    /\ \A addr \in AccessAddrs, size \in RecordSizes :
        LET w == write_data_with_check(st, addr, 7, size)
            g == read_data_with_check(st, addr, size, NoData)
        IN  /\ (w.rc = SCH_ST_OK) => ~CrossesPage(addr, size)
            /\ (g.rc = SCH_ST_OK) => ~CrossesPage(addr, size)
            /\ CrossesPage(addr, size)
                 => /\ w = [st |-> st, rc |-> SCH_ST_ERROR]
                    /\ g = [rc |-> SCH_ST_ERROR, data |-> NoData]

\* a payload_set of 200 bytes that returned ok, its record at offset 200 of a page
\* and read back, while 200 bytes at offset 400 of that page would cross
C13_Witness ==
    /\ ret.op = "payload_set" /\ ret.rc = SCH_ST_OK
    /\ ret.size = 200 /\ ret.index = 1 /\ ret.payload = 0
    /\ [addr |-> st_payload_base_addr + 200, size |-> 200, data |-> ret.data] \in st.flash
    /\ CrossesPage(st_payload_base_addr + 400, 200)
    /\ write_data_with_check(st, st_payload_base_addr + 400, 7, 200).rc = SCH_ST_ERROR

\* C14: a payload_set or payload_get with payload >= P or with an index beyond
\* the payload's K sections returns error and leaves the flash as it was
C14_BoundsRejected ==
    [][(/\ ret'.op \in {"payload_set", "payload_get"}
        /\ (ret'.payload >= last_sensor \/ ret'.index >= PayloadCapacity(ret'.size)))
          => (ret'.rc = SCH_ST_ERROR /\ st'.flash = st.flash)]_vars

(* ------------------------------------------------------------------ *)
(* Engine operations on a closed and on an open storage                *)
(* ------------------------------------------------------------------ *)
StorageStatusSet(index, value) ==
    LET r == storage_status_set_value_idx(st, index, value)
    IN  /\ st' = r.st
        /\ ret' = [op |-> "status_set", rc |-> r.rc]
        /\ UNCHANGED <<engine_hist, conc_vars, status_hist, payload_hist>>

StorageStatusGet(index) ==
    LET g == storage_status_get_value_idx(st, index)
    IN  /\ ret' = [op |-> "status_get", rc |-> g.rc, value |-> g.value]
        /\ UNCHANGED <<st, engine_hist, conc_vars, status_hist, payload_hist>>

StorageTableStatusInit ==
    LET r == storage_table_status_init(st)
    IN  /\ st' = r.st
        /\ ret' = [op |-> "table_status_init", rc |-> r.rc]
        /\ UNCHANGED <<engine_hist, conc_vars, status_hist, payload_hist>>

StorageTableFlightPlanInit ==
    LET r == storage_table_flight_plan_init(st, SCH_FP_MAX_ENTRIES)
    IN  /\ st' = r.st
        /\ ret' = [op |-> "table_flight_plan_init", rc |-> r.rc]
        /\ UNCHANGED <<engine_hist, conc_vars, status_hist, payload_hist>>

StorageTablePayloadInit ==
    LET r == storage_table_payload_init(st, last_sensor)
    IN  /\ st' = r.st
        /\ ret' = [op |-> "table_payload_init", rc |-> r.rc]
        /\ UNCHANGED <<engine_hist, conc_vars, status_hist, payload_hist>>

\* one row, one sample: the calls are made on both sides of storage_close
NotOpenRows == {row \in EngineRows : row.unixtime = 1}
NotOpenNext ==
    \/ DatRepoClose
    \/ Reboot
    \/ \E index \in StatusIdx, value \in StatusValues : StorageStatusSet(index, value)
    \/ \E index \in StatusIdx : StorageStatusGet(index)
    \/ StorageTableStatusInit
    \/ StorageTableFlightPlanInit
    \/ StorageTablePayloadInit
    \/ \E row \in NotOpenRows : FpSet(row)
    \/ \E t \in {1} : FpGet(t)
    \/ \E t \in {1} : FpDelete(t)
    \/ FpReset
    \/ \E size \in {200} : PayloadSet(0, 0, 7, size)
    \/ \E size \in {200} : PayloadGet(0, 0, size)
    \/ PayloadReset

SpecNotOpen == Init /\ [][NotOpenNext]_vars

EngineOps ==
    {"status_set", "status_get", "table_status_init", "table_flight_plan_init",
     "table_payload_init", "fp_set", "fp_get", "fp_delete", "fp_reset",
     "payload_set", "payload_get", "payload_reset"}
\* the media and the TLB
Stored(s) == <<s.flash, s.fram_status, s.fram_tlb, s.st_flightplan_tlb>>

\* C15: every engine operation issued while the storage is not open (before
\* storage_init, after storage_close) returns ST_ERROR and changes neither the
\* flash, the FRAM nor the TLB
C15_NotOpenRejected ==
    [][(~st.storage_is_open /\ ret'.op \in EngineOps)
          => (ret'.rc = SCH_ST_ERROR /\ Stored(st') = Stored(st))]_vars

(* ------------------------------------------------------------------ *)
(* Operations on a medium whose driver calls may fail                  *)
(* ------------------------------------------------------------------ *)
\* the flash and FRAM drivers start returning an error, and go on doing so
MediaFault ==
    /\ ~st.media_fault
    /\ st' = [st EXCEPT !.media_fault = TRUE]
    /\ ret' = [op |-> "media_fault", rc |-> SCH_ST_OK]
    /\ UNCHANGED <<engine_hist, conc_vars, status_hist, payload_hist>>

\* the status variable written and read on the faulty medium
MediaIdx == {dat_status_last_address - 1}
MediaNext ==
    \/ MediaFault
    \/ \E index \in MediaIdx : StorageStatusGet(index)
    \/ \E index \in MediaIdx, value \in {2} : DatSetStatusVar(index, value)
    \/ \E row \in NotOpenRows : FpSet(row)
    \/ \E t \in {1} : FpGet(t)
    \/ FpReset
    \/ \E size \in {200} : PayloadSet(0, 0, 7, size)
    \/ \E size \in {200} : PayloadGet(0, 0, size)
    \/ PayloadReset
    \/ DatDeleteMemorySections

SpecMedia == Init /\ [][MediaNext]_vars

\* the call r, made in state s, reaches at least one flash or FRAM driver call
MediaCallMade(s, r) ==
    \/ r.op \in {"status_get", "dat_set_status_var"}
    \/ /\ r.op \in {"payload_reset", "fp_reset", "dat_delete_memory_sections"}
       /\ s.storage_is_open
    \/ /\ r.op = "fp_set" /\ s.storage_is_open /\ r.timetodo >= 0
       /\ storage_flightplan_find_index_tlb(s, ST_FP_NULL) >= 0
    \/ /\ r.op = "fp_get"
       /\ storage_flightplan_find_index_tlb(s, r.timetodo) >= 0
    \/ /\ r.op \in {"payload_set", "payload_get"} /\ s.storage_is_open
       /\ _get_sample_address(s, r.payload, r.index, r.size).rc = SCH_ST_OK
       /\ check_address_alignment(
              _get_sample_address(s, r.payload, r.index, r.size).address, r.size) = SCH_ST_OK

\* C16: an operation whose flash or FRAM read, write or erase returned non-zero
\* returns an error; dat_set_status_var (three writes) and
\* dat_delete_memory_sections (payload reset, flight-plan reset) return non-zero
\* when one of their steps failed
C16_MediaErrorsPropagate ==
    [][(st.media_fault /\ MediaCallMade(st, ret')) => ret'.rc # SCH_ST_OK]_vars

(* ------------------------------------------------------------------ *)
(* Samples appended through the facade                                 *)
(* ------------------------------------------------------------------ *)
\* the samples passed to dat_add_payload_sample
AppendSamples == {7, 8}
\* the payloads of data_map
AppendPayloads == 0 .. (last_sensor - 1)
\* the indexes read back by a call of dat_get_payload_sample
AppendIdx == {0, 1}

DatGetPayloadSample(payload, index) ==
    \E oob \in OobWords :
      LET g == dat_get_payload_sample(Heap(st, oob), payload, index, NoData)
      IN  /\ ret' = [op |-> "dat_get_payload_sample", rc |-> g.rc, payload |-> payload,
                     index |-> index, data |-> g.data]
          /\ UNCHANGED <<st, engine_hist, conc_vars, status_hist, payload_hist>>

AppendNext ==
    \/ \E data \in AppendSamples, payload \in AppendPayloads :
          DatAddPayloadSample(data, payload)
    \/ \E payload \in AppendPayloads, index \in AppendIdx :
          DatGetPayloadSample(payload, index)
    \/ DatDeleteMemorySections

SpecAppend == Init /\ [][AppendNext]_vars

\* C20: after the calls of dat_add_payload_sample made for payload p while its
\* index was below the capacity, the index of p is the number n of those calls
\* (each succeeded and advanced it by one, none left it stuck), and
\* dat_get_payload_sample(p, j) returns the j-th sample passed, for every j < n
C20_SequentialAppend ==
    \A p \in AppendPayloads :
        /\ dat_get_system_var(st, data_map[p].sys_index) = Len(added[p])
        /\ \A j \in 1 .. Len(added[p]) :
              dat_get_payload_sample(st, p, j - 1, NoData)
                = [rc |-> SCH_ST_OK, data |-> added[p][j]]

(* ------------------------------------------------------------------ *)
(* The metadata counter and the compaction                             *)
(* ------------------------------------------------------------------ *)
\* C24: the metadata counter is unchanged by a get and by a delete (by time or
\* by index); a set that allocates a slot leaves it one above its value before
\* the call, or one above the number of live slots when the call compacted
\* first; it decreases only in a set that compacts, a compaction or a reset
C24_CounterSteps ==
    [][LET c  == st.st_flightplan_tlb[SCH_FP_MAX_ENTRIES].addr
           c1 == st'.st_flightplan_tlb[SCH_FP_MAX_ENTRIES].addr
       IN  /\ ret'.op \in {"fp_get", "fp_delete", "fp_delete_idx"} => c1 = c
           /\ (ret'.op = "fp_set" /\ ret'.rc = SCH_ST_OK) =>
                  \/ c1 = c + 1
                  \/ c1 = LiveSlots(st) + 1 /\ c1 <= c
           /\ c1 < c => ret'.op \in {"fp_set", "fp_rebuild", "fp_reset"}]_vars

\* a delete by index that left the counter at 3 with one live slot: three
\* insertions were counted and the delete took nothing from the counter
C24_Witness ==
    /\ ret.op = "fp_delete_idx" /\ ret.rc = SCH_ST_OK
    /\ st.st_flightplan_tlb[SCH_FP_MAX_ENTRIES].addr = 3
    /\ LiveSlots(st) = 1

\* C25: right after flight_plan_rebuild_tlb the metadata counter equals the
\* number of live slots, the live slots hold the flash slots 0 .. live-1 of the
\* section in increasing order of TLB slot, every slot has the unixtime it had
\* before, and the persisted TLB equals the one in memory
C25_RebuildCompacts ==
    [][ret'.op = "fp_rebuild" =>
          /\ st'.st_flightplan_tlb[SCH_FP_MAX_ENTRIES].addr = LiveSlots(st')
          /\ \A k \in TlbSlots :
                /\ st'.st_flightplan_tlb[k].unixtime = st.st_flightplan_tlb[k].unixtime
                /\ st'.st_flightplan_tlb[k].unixtime # ST_FP_NULL =>
                      st'.st_flightplan_tlb[k].addr
                        = st_flightplan_base_addr + FP_CONTAINER_SIZE *
                            Cardinality({j \in 0 .. (k - 1) :
                                           st.st_flightplan_tlb[j].unixtime # ST_FP_NULL})
          /\ st'.fram_tlb = st'.st_flightplan_tlb]_vars

\* a rebuild moved the only live entry, held by TLB slot 1, to the first flash
\* slot of the section
C25_Witness ==
    /\ ret.op = "fp_rebuild"
    /\ st.st_flightplan_tlb[0] = EmptyTlbEntry
    /\ st.st_flightplan_tlb[1] = [addr |-> st_flightplan_base_addr, unixtime |-> 2]
    /\ st.st_flightplan_tlb[SCH_FP_MAX_ENTRIES].addr = 1

(* ------------------------------------------------------------------ *)
(* storage_flight_plan_set step by step, with power loss               *)
(* ------------------------------------------------------------------ *)
\* a variant that goes on to the next media write whatever the last one returned
set_goes_on_after_error(pc, rc) ==
    IF pc = "idle" THEN "set_counter"
    ELSE IF pc = "set_counter" THEN "set_write"
    ELSE "idle"

\* where storage_flight_plan_set_st stands after the media write made at pc
\* returned rc: storage_flightplan_update_tlb dumps the counter only if the dump
\* of the slot returned ok (lines 613-615), the page is written only if
\* update_tlb returned ok (lines 776-781)
SetStPc(pc, rc) ==
    IF rc # SCH_ST_OK THEN "idle"
    ELSE IF pc = "idle" THEN "set_counter"
    ELSE IF pc = "set_counter" THEN "set_write"
    ELSE "idle"

\* the calling thread
Caller == 1

\* storage_flight_plan_set up to the first write to the FRAM: the tests, the
\* rebuild if one is due, the search of a free slot, the address, the update of
\* the TLB in memory and storage_flightplan_dump_tlb(index)
SetStSlot(row) ==
    \E oob \in OobWords :
      LET s  == Heap(st, oob)
          s1 == IF U32Gt(s.st_flightplan_tlb[SCH_FP_MAX_ENTRIES].addr, commands_per_section)
                THEN flight_plan_rebuild_tlb(s).st ELSE s
          index_tlb == storage_flightplan_find_index_tlb(s1, ST_FP_NULL)
          index_flash == ToInt(s1.st_flightplan_tlb[SCH_FP_MAX_ENTRIES].addr)
          addr == U32Add(TableAt(s1.st_flightplan_addr,
                                 index_flash \div commands_per_section, s1.oob_word),
                         (index_flash % commands_per_section) * FP_CONTAINER_SIZE)
      IN  /\ threads[Caller].pc = "idle"
          /\ IF row.unixtime < 0 \/ ~s.storage_is_open
             THEN /\ ret' = [op |-> "fp_set", rc |-> SCH_ST_ERROR]
                  /\ UNCHANGED <<st, engine_hist, threads>>
             ELSE IF index_tlb = -1 \/ index_tlb >= s1.st_flightplan_entries
             THEN /\ st' = Settled(s1)
                  /\ ret' = [op |-> "fp_set", rc |-> SCH_ST_ERROR]
                  /\ UNCHANGED <<engine_hist, threads>>
             ELSE
               LET s2 == [s1 EXCEPT
                            !.st_flightplan_tlb[index_tlb] =
                                [addr |-> addr, unixtime |-> row.unixtime],
                            !.st_flightplan_tlb[SCH_FP_MAX_ENTRIES].addr = U32Add(1, @)]
                   d1 == storage_flightplan_dump_tlb(s2, index_tlb)
               IN  /\ st' = Settled(d1.st)
                   /\ threads' = [threads EXCEPT
                                     ![Caller].pc = SetStPc("idle", d1.rc),
                                     ![Caller].i = index_tlb,
                                     ![Caller].timetodo = row.unixtime]
                   /\ ret' = [op |-> "fp_set_slot", rc |-> d1.rc]
                   /\ live' = LiveAfterSet(live, row.unixtime, SCH_ST_OK)
                   /\ fp_rows' = RowsAfterSet(st, d1.st, fp_rows, row)
          /\ UNCHANGED <<repo_data_sem, status_hist, payload_hist>>

\* storage_flightplan_update_tlb line 615: storage_flightplan_dump_tlb(SCH_FP_MAX_ENTRIES)
SetStCounter ==
    LET d2 == storage_flightplan_dump_tlb(st, SCH_FP_MAX_ENTRIES)
    IN  /\ threads[Caller].pc = "set_counter"
        /\ st' = d2.st
        /\ threads' = [threads EXCEPT ![Caller].pc = SetStPc("set_counter", d2.rc)]
        /\ ret' = [op |-> "fp_set_counter", rc |-> d2.rc]
        /\ UNCHANGED <<engine_hist, repo_data_sem, status_hist, payload_hist>>

\* storage_flight_plan_set_st lines 779-785: storage_write_flash of the new entry
\* at the address the TLB slot holds, and the return
SetStWrite ==
    LET th == threads[Caller]
    IN  /\ th.pc = "set_write"
        /\ st' = [st EXCEPT !.flash =
                     storage_write_flash(@, st.st_flightplan_tlb[th.i].addr,
                                         FpContainerOf(RowOfTime(th.timetodo)),
                                         FP_CONTAINER_SIZE)]
        /\ threads' = [threads EXCEPT ![Caller].pc = SetStPc("set_write", MediaRc(st))]
        /\ ret' = [op |-> "fp_set", rc |-> MediaRc(st)]
        /\ UNCHANGED <<engine_hist, repo_data_sem, status_hist, payload_hist>>

\* power is lost at any point, inside the call or between calls, and the
\* software starts again: the TLB in memory is the one the FRAM holds
Crash ==
    /\ st' = Rebooted(st)
    /\ threads' = [threads EXCEPT ![Caller] = IdleThread]
    /\ ret' = [op |-> "crash", rc |-> SCH_ST_OK]
    /\ live' = [t \in DOMAIN live |->
                  Cardinality({k \in TlbSlots : st.fram_tlb[k].unixtime = t /\ t # ST_FP_NULL})]
    /\ UNCHANGED <<fp_rows, repo_data_sem, status_hist, payload_hist>>

CrashNext ==
    \/ \E row \in FacadeRows : SetStSlot(row)
    \/ SetStCounter
    \/ SetStWrite
    \/ Crash
    \/ (threads[Caller].pc = "idle" /\ ~st.media_fault /\ FpReset)
    \/ (threads[Caller].pc = "idle" /\ MediaFault)

SpecCrash == Init /\ [][CrashNext]_vars

\* C26: the step of storage_flight_plan_set that writes the page of the new
\* entry to the flash is taken only when the FRAM already holds the TLB slot of
\* that entry and the metadata counter as they are in memory, and only when the
\* writes that put them there returned ok
C26_TlbBeforePage ==
    [][(threads[Caller].pc = "set_write" /\ ret'.op = "fp_set") =>
          LET k == threads[Caller].i
          IN  /\ st.fram_tlb[k] = st.st_flightplan_tlb[k]
              /\ st.fram_tlb[k].unixtime = threads[Caller].timetodo
              /\ st.fram_tlb[SCH_FP_MAX_ENTRIES] = st.st_flightplan_tlb[SCH_FP_MAX_ENTRIES]
              /\ ~st.media_fault]_vars

\* the page of the second entry was written, after its slot and the counter
C26_Witness ==
    /\ ret = [op |-> "fp_set", rc |-> SCH_ST_OK]
    /\ threads[Caller].i = 1
    /\ st.fram_tlb[1].unixtime = 2
    /\ st.fram_tlb[SCH_FP_MAX_ENTRIES].addr = 2
    /\ Cardinality(st.flash) = 2

\* C27: whatever the point of storage_flight_plan_set at which power is lost,
\* in every state reached afterwards no two live TLB slots hold the same flash
\* address
C27_CrashKeepsAddrDistinct ==
    \A j, k \in TlbSlots :
        (j < k /\ st.st_flightplan_tlb[j].unixtime # ST_FP_NULL
               /\ st.st_flightplan_tlb[k].unixtime # ST_FP_NULL)
            => st.st_flightplan_tlb[j].addr # st.st_flightplan_tlb[k].addr

(* ------------------------------------------------------------------ *)
(* Entries with the same unixtime                                      *)
(* ------------------------------------------------------------------ *)
\* C28: storage_flightplan_find_index_tlb returns the lowest slot whose unixtime
\* matches (-1 if none); a set that returns ok fills the lowest empty slot and
\* leaves the unixtime of every other slot, also when that slot holds the same
\* unixtime; storage_flight_plan_get_st(t) returns what the lowest slot with
\* unixtime t holds; after a delete by time of an entry that had a twin, the
\* twin is what storage_flight_plan_get_st(t) returns
C28_LowestSlotFirst ==
    [][LET With(s, t) == {k \in TlbSlots : s.st_flightplan_tlb[k].unixtime = t}
           Lowest(S) == CHOOSE k \in S : \A j \in S : k <= j
       IN  /\ \A t \in FpTimes :
                 IF With(st', t) = {}
                 THEN storage_flightplan_find_index_tlb(st', t) = -1
                 ELSE /\ storage_flightplan_find_index_tlb(st', t) = Lowest(With(st', t))
                      /\ t # ST_FP_NULL =>
                            storage_flight_plan_get_st(st', t, NoRow)
                              = storage_flight_plan_get_idx(st', Lowest(With(st', t)), NoRow)
           /\ (ret'.op = "fp_set" /\ ret'.rc = SCH_ST_OK) =>
                 /\ With(st, ST_FP_NULL) # {}
                 /\ \A k \in TlbSlots :
                       st'.st_flightplan_tlb[k].unixtime
                         = IF k = Lowest(With(st, ST_FP_NULL)) THEN ret'.timetodo
                           ELSE st.st_flightplan_tlb[k].unixtime
           /\ (ret'.op = "fp_delete" /\ ret'.rc = SCH_ST_OK
                  /\ ret'.timetodo # ST_FP_NULL
                  /\ Cardinality(With(st, ret'.timetodo)) > 1) =>
                 /\ With(st', ret'.timetodo) = With(st, ret'.timetodo)
                                                  \ {Lowest(With(st, ret'.timetodo))}
                 /\ storage_flight_plan_get_st(st', ret'.timetodo, NoRow).rc = SCH_ST_OK]_vars

\* two entries with unixtime 1 were stored, the one in slot 0 was deleted by
\* time and the one in slot 1 is left
C28_Witness ==
    /\ ret = [op |-> "fp_delete", rc |-> SCH_ST_OK, timetodo |-> 1]
    /\ st.st_flightplan_tlb[0] = EmptyTlbEntry
    /\ st.st_flightplan_tlb[1].unixtime = 1
    /\ live[1] = 1

(* ------------------------------------------------------------------ *)
(* First start on a blank FRAM                                         *)
(* ------------------------------------------------------------------ *)
\* the statics after dat_repo_init on a FRAM that reads 0xFF everywhere in the
\* bytes of the TLB, and an erased flash: storage_flightplan_load_tlb loaded
\* -1 into every field, the metadata entry included
ColdStorage == OpenStorage(MemsetTlb, [i \in StatusSlots |-> 0], EmptyFlash)

InitCold ==
    /\ st = ColdStorage
    /\ ret = NoCall
    /\ live = NoLive
    /\ fp_rows = NoRows
    /\ threads = [self \in Threads |-> IdleThread]
    /\ repo_data_sem = 0
    /\ golden = [i \in StatusIdx |-> NoValue]
    /\ faulty = [i \in StatusIdx |-> {}]
    /\ added = NoSamples

ColdNext ==
    \/ \E row \in EngineRows : FpSet(row)
    \/ \E t \in FpTimes : FpGet(t)
    \/ \E t \in FpTimes : FpDelete(t)
    \/ Reboot

SpecCold == InitCold /\ [][ColdNext]_vars

\* C29: on the TLB loaded from an all-0xFF medium every slot has unixtime -1,
\* storage_flight_plan_get_st and storage_flight_plan_get_idx return an error
\* for every time and index, and the first set with a time >= 0 returns ok,
\* takes slot 0 and writes its entry at the first flash slot of the
\* flight-plan region, leaving the counter at 1
C29_ColdBootEmpty ==
    [][st = ColdStorage =>
          /\ \A k \in TlbSlots : st.st_flightplan_tlb[k].unixtime = ST_FP_NULL
          /\ \A t \in FpTimes : storage_flight_plan_get_st(st, t, NoRow).rc = SCH_ST_ERROR
          /\ \A k \in 0 .. SCH_FP_MAX_ENTRIES :
                storage_flight_plan_get_idx(st, k, NoRow).rc = SCH_ST_ERROR
          /\ (ret'.op = "fp_set" /\ ret'.timetodo >= 0) =>
                /\ ret'.rc = SCH_ST_OK
                /\ st'.st_flightplan_tlb[0]
                      = [addr |-> st_flightplan_base_addr, unixtime |-> ret'.timetodo]
                /\ st'.st_flightplan_tlb[SCH_FP_MAX_ENTRIES].addr = 1
                /\ \E rec \in st'.flash :
                      /\ rec.addr = st_flightplan_base_addr
                      /\ rec.data.unixtime = ret'.timetodo
                /\ storage_flight_plan_get_st(st', ret'.timetodo, NoRow).rc = SCH_ST_OK]_vars

\* the first set after the cold boot returned ok
C29_Witness ==
    /\ ret = [op |-> "fp_set", rc |-> SCH_ST_OK, timetodo |-> 2]
    /\ st.st_flightplan_tlb[0] = [addr |-> st_flightplan_base_addr, unixtime |-> 2]
    /\ st.st_flightplan_tlb[1] = EmptyTlbEntry
    /\ st.st_flightplan_tlb[SCH_FP_MAX_ENTRIES].addr = 1
    /\ live[2] = 1

(* ------------------------------------------------------------------ *)
(* The TLB kept in flash (ST_FP_TLB_FRAM not defined)                  *)
(* ------------------------------------------------------------------ *)
\* sizeof(fp_addr_t): uint32_t addr, int32_t unixtime
FP_ADDR_SIZE == 4 + 4
\* numbers of entries of st_flightplan_tlb (SCH_FP_MAX_ENTRIES + 1): a small
\* table, one that fills a page exactly, and one that is one entry longer
TlbLens == {2, ST_PAGE_SIZE \div FP_ADDR_SIZE, ST_PAGE_SIZE \div FP_ADDR_SIZE + 1}
\* the TLB section of the flash, as the fp_addr_t values it holds from
\* st_flightplan_tlb_base_addr on; an erased section is zeroed (memset 0)
TlbSectionSlots == 0 .. (SCH_SIZE_PER_SECTION \div FP_ADDR_SIZE - 1)
ErasedTlbEntry == [addr |-> 0, unixtime |-> 0]
\* what the memory past the end of st_flightplan_tlb may hold
TlbOobEntries == {ErasedTlbEntry, [addr |-> GARBAGE, unixtime |-> GARBAGE]}

\* the for loop of storage_flightplan_dump_tlb (lines 585-591) from len on: the
\* source st_flightplan_tlb + len is len entries (not bytes) into the table,
\* the destination is st_flightplan_tlb_base_addr for every chunk
RECURSIVE DumpTlbChunks(_, _, _, _)
DumpTlbChunks(section, tlb, len, oob) ==
    LET total == Cardinality(DOMAIN tlb) * FP_ADDR_SIZE
        size == IF len + ST_PAGE_SIZE < total THEN ST_PAGE_SIZE ELSE total - len
    IN  IF len >= total THEN section
        ELSE DumpTlbChunks(
               [e \in DOMAIN section |->
                  IF e < size \div FP_ADDR_SIZE
                  THEN IF (len + e) \in DOMAIN tlb THEN tlb[len + e] ELSE oob
                  ELSE section[e]],
               tlb, len + ST_PAGE_SIZE, oob)

\* storage_flightplan_dump_tlb, flash branch (lines 581-594): erase, then the chunks
storage_flightplan_dump_tlb_flash(tlb, oob) ==
    DumpTlbChunks([e \in TlbSectionSlots |-> ErasedTlbEntry], tlb, 0, oob)

\* storage_flightplan_load_tlb, flash branch (line 561): one read of
\* sizeof(st_flightplan_tlb) bytes from st_flightplan_tlb_base_addr
storage_flightplan_load_tlb_flash(tlb, section) ==
    [k \in DOMAIN tlb |-> section[k]]

\* a table of n empty entries over an erased TLB section
InitTlbFlash ==
    /\ \E n \in TlbLens :
          st = [st_flightplan_tlb |-> [k \in 0 .. (n - 1) |-> EmptyTlbEntry],
                tlb_section |-> [e \in TlbSectionSlots |-> ErasedTlbEntry]]
    /\ ret = NoCall
    /\ live = NoLive
    /\ fp_rows = NoRows
    /\ threads = [self \in Threads |-> IdleThread]
    /\ repo_data_sem = 0
    /\ golden = [i \in StatusIdx |-> NoValue]
    /\ faulty = [i \in StatusIdx |-> {}]
    /\ added = NoSamples

\* an entry of the table in memory is given a time and an address
TlbUpdate(k, unixtime) ==
    /\ k \in DOMAIN st.st_flightplan_tlb
    /\ st' = [st EXCEPT !.st_flightplan_tlb[k] =
                  [addr |-> st_flightplan_base_addr + unixtime * FP_CONTAINER_SIZE,
                   unixtime |-> unixtime]]
    /\ ret' = [op |-> "update_tlb", rc |-> SCH_ST_OK]
    /\ UNCHANGED <<engine_hist, conc_vars, status_hist, payload_hist>>

TlbDump ==
    \E oob \in TlbOobEntries :
        /\ st' = [st EXCEPT !.tlb_section =
                      storage_flightplan_dump_tlb_flash(st.st_flightplan_tlb, oob)]
        /\ ret' = [op |-> "dump_tlb", rc |-> SCH_ST_OK]
        /\ UNCHANGED <<engine_hist, conc_vars, status_hist, payload_hist>>

TlbLoad ==
    /\ st' = [st EXCEPT !.st_flightplan_tlb =
                  storage_flightplan_load_tlb_flash(st.st_flightplan_tlb, st.tlb_section)]
    /\ ret' = [op |-> "load_tlb", rc |-> SCH_ST_OK]
    /\ UNCHANGED <<engine_hist, conc_vars, status_hist, payload_hist>>

TlbFlashNext ==
    \/ \E k \in {0, 1} \cup {n - 1 : n \in TlbLens}, unixtime \in SetTimes :
          TlbUpdate(k, unixtime)
    \/ TlbDump
    \/ TlbLoad

SpecTlbFlash == InitTlbFlash /\ [][TlbFlashNext]_vars

\* C30: with the TLB kept in flash, right after storage_flightplan_dump_tlb the
\* TLB section holds entry k of the table at offset k * sizeof(fp_addr_t), for
\* every k (so chunk j of the table lies at base + j * 512), and
\* storage_flightplan_load_tlb returns the table as it is in memory
C30_FlashTlbRoundTrip ==
    ret.op = "dump_tlb" =>
        /\ \A k \in DOMAIN st.st_flightplan_tlb :
              st.tlb_section[k] = st.st_flightplan_tlb[k]
        /\ storage_flightplan_load_tlb_flash(st.st_flightplan_tlb, st.tlb_section)
              = st.st_flightplan_tlb

(* ------------------------------------------------------------------ *)
(* What a payload's samples share with the rest of the flash           *)
(* ------------------------------------------------------------------ *)
\* the bytes a payload_set(payload, index, size) that returns ok writes
SampleAddr(s, payload, index, size) ==
    _get_sample_address(s, payload, index, size).address
\* the records of the flash that lie in the flight-plan sections
FpRecords(s) ==
    {r \in s.flash :
        /\ r.addr >= st_flightplan_base_addr
        /\ r.addr < st_flightplan_base_addr + st_flightplan_sections * SCH_SIZE_PER_SECTION}

\* C31: payload_reset_table(p) leaves no record at the address of any sample
\* (p, i) with i within capacity, and leaves what payload_get returns for every
\* sample of every other payload, and the flight-plan sections, as they were
C31_ResetTableErasesOwnSamples ==
    [][(ret'.op = "payload_reset_table" /\ ret'.payload < last_sensor)
          => /\ ret'.rc = SCH_ST_OK
             /\ \A size \in RecordSizes, i \in SampleIdx :
                   i < PayloadCapacity(size)
                     => ~ \E r \in st'.flash :
                            Overlaps(r, SampleAddr(st, ret'.payload, i, size), size)
             /\ \A q \in 0 .. (last_sensor - 1), size \in RecordSizes, j \in SampleIdx :
                   (q # ret'.payload /\ j < PayloadCapacity(size))
                     => storage_payload_get_data(st', q, j, NoData, [size |-> size])
                          = storage_payload_get_data(st, q, j, NoData, [size |-> size])
             /\ FpRecords(st') = FpRecords(st)]_vars

(* ------------------------------------------------------------------ *)
(* Records of 200 bytes in pages of 512                                *)
(* ------------------------------------------------------------------ *)
\* the first four samples of a payload: two pages of two records of 200 bytes
PageIdx == 0 .. 3

PageNext ==
    \/ \E index \in PageIdx, data \in PayloadData : PayloadSet(0, index, data, 200)
    \/ \E index \in PageIdx : PayloadGet(0, index, 200)
    \/ PayloadResetTable(0)

SpecPage == Init /\ [][PageNext]_vars

\* C32: with pages of 512 bytes and records of 200 bytes, payload_set at indexes 0
\* and 1 returns ok, at index 2 returns error and writes nothing (the record
\* would lie at bytes 400-599 of the page), and at index 3 returns ok with the
\* record in the next page
C32_PageBoundaryScenario ==
    [][(ret'.op = "payload_set" /\ ret'.size = 200 /\ ret'.payload = 0)
          => /\ ret'.index \in {0, 1, 3} => ret'.rc = SCH_ST_OK
             /\ ret'.index = 2 => (ret'.rc = SCH_ST_ERROR /\ st'.flash = st.flash)
             /\ ret'.index = 3
                   => \E r \in st'.flash :
                        /\ r.size = 200 /\ r.data = ret'.data
                        /\ PageOf(r.addr) = PageOf(st_payload_base_addr) + 1]_vars

(* ------------------------------------------------------------------ *)
(* Setting the system time (cmdOBC.c)                                  *)
(* ------------------------------------------------------------------ *)
\* the codes a command returns
CMD_OK == "CMD_OK"
CMD_ERROR == "CMD_ERROR"
CMD_SYNTAX_ERROR == "CMD_SYNTAX_ERROR"
\* osSetTimeUnix: returns 1 if ok, 0 on error; done tells whether the clock
\* accepted the time
osSetTimeUnix(s, time, done) ==
    IF done THEN [st |-> [s EXCEPT !.sys_time = time], rc |-> 1]
    ELSE [st |-> s, rc |-> 0]

dat_set_time(s, new_time, done) == osSetTimeUnix(s, new_time, done)

\* sscanf(params, "%d", &time_to_set): params is the sequence of the numbers written
\* in the string; the count is EOF when the string ends before the first one
Sscanf(params) == IF Len(params) = 0 THEN 0 - 1 ELSE 1

obc_set_time(s, params, nparams, done) ==
    IF params = NULL \/ Sscanf(params) # nparams
    THEN [st |-> s, rc |-> CMD_SYNTAX_ERROR]
    ELSE LET r == dat_set_time(s, params[1], done)
         IN  [st |-> r.st, rc |-> IF r.rc = 0 THEN CMD_OK ELSE CMD_ERROR]

\* the times a command sets, and the parameter strings it is called with
TimeValues == 0 .. 9
TimeParams == {NULL} \cup {<<t>> : t \in TimeValues}

InitTime ==
    /\ st = [sys_time |-> 0]
    /\ ret = NoCall
    /\ live = NoLive
    /\ fp_rows = NoRows
    /\ threads = [self \in Threads |-> IdleThread]
    /\ repo_data_sem = 0
    /\ golden = [i \in StatusIdx |-> NoValue]
    /\ faulty = [i \in StatusIdx |-> {}]
    /\ added = NoSamples

ObcSetTime(params, nparams, done) ==
    LET r == obc_set_time(st, params, nparams, done)
    IN  /\ st' = r.st
        /\ ret' = [op |-> "obc_set_time", rc |-> r.rc, params |-> params,
                   time_set |-> (r.rc # CMD_SYNTAX_ERROR /\ done)]
        /\ UNCHANGED <<engine_hist, conc_vars, status_hist, payload_hist>>

TimeNext ==
    \E params \in TimeParams, nparams \in {1, 2}, done \in BOOLEAN :
        ObcSetTime(params, nparams, done)

SpecTime == InitTime /\ [][TimeNext]_vars

\* C33: a call of obc_set_time whose parameters parse returns CMD_OK exactly when
\* the system time was set (osSetTimeUnix returned 1) and CMD_ERROR when setting
\* it failed (osSetTimeUnix returned 0)
C33_SetTimeReportsOutcome ==
    [][(ret'.op = "obc_set_time" /\ ret'.rc # CMD_SYNTAX_ERROR)
          => /\ ret'.rc = CMD_OK <=> ret'.time_set
             /\ ret'.rc = CMD_ERROR <=> ~ret'.time_set
             /\ ret'.rc = CMD_OK => st'.sys_time = ret'.params[1]]_vars

(* ------------------------------------------------------------------ *)
(* The append cursor and the live entries                              *)
(* ------------------------------------------------------------------ *)
\* the flash slot of an address: (addr - st_flightplan_base_addr) / 512, unsigned
FlashSlotOf(addr) == U32Div(U32Sub(addr, st_flightplan_base_addr), FP_CONTAINER_SIZE)
\* the address storage_flight_plan_set_st computes for the cursor index_flash
AppendAddr(s, index_flash) ==
    U32Add(TableAt(s.st_flightplan_addr, index_flash \div commands_per_section, s.oob_word),
           (index_flash % commands_per_section) * FP_CONTAINER_SIZE)

\* C34: in every reachable state the flash slot of each live TLB slot is below the
\* metadata counter, the counter is at least the number of live slots, and the
\* address the next fp_set appends at is not the address of a live entry
C34_LiveBelowCursor ==
    LET counter == st.st_flightplan_tlb[SCH_FP_MAX_ENTRIES].addr
    IN  /\ \A k \in TlbSlots :
              st.st_flightplan_tlb[k].unixtime # ST_FP_NULL
                => U32Gt(counter, FlashSlotOf(st.st_flightplan_tlb[k].addr))
        /\ ToInt(counter) >= LiveSlots(st)
        /\ \A k \in TlbSlots, oob \in OobWords :
              (/\ st.st_flightplan_tlb[k].unixtime # ST_FP_NULL
               /\ ~U32Gt(counter, commands_per_section))
                => st.st_flightplan_tlb[k].addr # AppendAddr(Heap(st, oob), ToInt(counter))

(* ------------------------------------------------------------------ *)
(* Deleting a time that no live entry has                              *)
(* ------------------------------------------------------------------ *)
\* some live slot of the table has that unixtime
IsLiveTime(s, t) ==
    \E k \in TlbSlots :
        /\ s.st_flightplan_tlb[k].unixtime # ST_FP_NULL
        /\ s.st_flightplan_tlb[k].unixtime = t

\* C35: storage_flight_plan_delete_row(t) with t the unixtime of no live entry (the
\* sentinel -1 included) returns error and leaves the TLB as it was, and so does
\* dat_del_fp(t) called in that state, which also leaves fpl_queue as it was
C35_DeleteOfDeadTimeFails ==
    [][(ret'.op = "fp_delete" /\ ~IsLiveTime(st, ret'.timetodo))
          => /\ ret'.rc = SCH_ST_ERROR
             /\ st' = st
             /\ dat_del_fp(st, ret'.timetodo) = [st |-> st, rc |-> SCH_ST_ERROR]]_vars

(* ------------------------------------------------------------------ *)
(* dat_get_fp called by several threads for the same time              *)
(* ------------------------------------------------------------------ *)
\* number of TLB slots that hold the time t
CountTime(s, t) ==
    Cardinality({k \in TlbSlots : s.st_flightplan_tlb[k].unixtime = t})

\* C36: the read and the delete of dat_get_fp(t) are one step made while the caller
\* holds repo_data_sem: if a live entry has the time t the call goes on to return
\* ok and the table holds one entry of time t less, otherwise the call returns
\* error and changes nothing; so of the calls made for one live entry one returns
\* ok, and no more entries are delivered or deleted than were set
C36_GetDeliversOnce ==
    [][\A self \in Threads :
          (/\ threads[self].pc = "fp_call" /\ threads[self].op = "dat_get_fp"
           /\ threads'[self].pc # "fp_call")
            => LET t == threads[self].timetodo
               IN  /\ repo_data_sem = self
                   /\ IsLiveTime(st, t)
                         => /\ threads'[self].pc = "write_take"
                            /\ CountTime(st', t) = CountTime(st, t) - 1
                   /\ ~IsLiveTime(st, t)
                         => /\ threads'[self].pc = "idle"
                            /\ ret' = [op |-> "dat_get_fp", rc |-> SCH_ST_ERROR]
                            /\ st' = st
                   /\ live'[t] >= 0]_vars

\* two calls of dat_get_fp for the one live entry: one has read and deleted it and
\* is about to write fpl_queue, the other has returned error
C36_Witness ==
    /\ ret = [op |-> "dat_get_fp", rc |-> SCH_ST_ERROR]
    /\ \E self \in Threads :
          /\ threads[self].op = "dat_get_fp" /\ threads[self].pc = "write_take"
          /\ threads[self].calls = 1
          /\ \A other \in Threads \ {self} :
                threads[other].pc = "idle" /\ threads[other].calls = 1
    /\ LiveSlots(st) = 0
    /\ \A t \in ConcTimes : live[t] = 0

(* ------------------------------------------------------------------ *)
(* dat_add_payload_sample called by several threads                    *)
(* ------------------------------------------------------------------ *)
\* a thread outside dat_add_payload_sample: its last call's payload, data, the
\* index it read (incremented after a successful write), where it stored the
\* sample, and what it returned
IdleAdder ==
    [pc |-> "idle", payload |-> 0, data |-> 0, index |-> 0, stored_at |-> 0 - 1,
     rc |-> 0, calls |-> 0]

InitAdd ==
    /\ st = InitStorage
    /\ ret = NoCall
    /\ live = NoLive
    /\ fp_rows = NoRows
    /\ threads = [self \in Threads |-> IdleAdder]
    /\ repo_data_sem = 0
    /\ golden = [i \in StatusIdx |-> NoValue]
    /\ faulty = [i \in StatusIdx |-> {}]
    /\ added = NoSamples

\* the call starts (payload < last_sensor, line 355)
CallAdd(self, data, payload) ==
    /\ threads[self].pc = "idle"
    /\ threads[self].calls < MaxCalls
    /\ threads' = [threads EXCEPT ![self] =
                      [IdleAdder EXCEPT !.pc = "index_take", !.payload = payload,
                                        !.data = data, !.calls = threads[self].calls]]
    /\ UNCHANGED <<st, ret, engine_hist, repo_data_sem, status_hist, payload_hist>>

\* line 351, dat_get_system_var -> dat_get_status_var line 177: osSemaphoreTake
AddIndexTake(self) ==
    /\ threads[self].pc = "index_take"
    /\ repo_data_sem = 0
    /\ repo_data_sem' = self
    /\ threads' = [threads EXCEPT ![self].pc = "index_read"]
    /\ UNCHANGED <<st, ret, engine_hist, status_hist, payload_hist>>

\* dat_get_status_var lines 179-202: the reads, osSemaphoreGiven, the vote
AddIndexRead(self) ==
    /\ threads[self].pc = "index_read"
    /\ repo_data_sem' = 0
    /\ threads' = [threads EXCEPT
                      ![self].pc = "set_take",
                      ![self].index =
                          dat_get_system_var(st, data_map[threads[self].payload].sys_index)]
    /\ UNCHANGED <<st, ret, engine_hist, status_hist, payload_hist>>

\* line 358: osSemaphoreTake
AddSetTake(self) ==
    /\ threads[self].pc = "set_take"
    /\ repo_data_sem = 0
    /\ repo_data_sem' = self
    /\ threads' = [threads EXCEPT ![self].pc = "set_call"]
    /\ UNCHANGED <<st, ret, engine_hist, status_hist, payload_hist>>

\* lines 359-373: storage_payload_set_data, osSemaphoreGiven; on success index += 1
\* and the call goes on to dat_set_system_var, else it returns -1
AddSetCall(self) ==
    /\ threads[self].pc = "set_call"
    /\ \E oob \in OobWords :
         LET th == threads[self]
             r == storage_payload_set_data(Heap(st, oob), th.payload, th.index, th.data,
                                           data_map[th.payload])
         IN  /\ st' = Settled(r.st)
             /\ IF r.rc >= SCH_ST_OK
                THEN /\ threads' = [threads EXCEPT ![self].pc = "index_write_take",
                                                   ![self].stored_at = th.index,
                                                   ![self].index = th.index + 1]
                     /\ UNCHANGED ret
                ELSE /\ threads' = [threads EXCEPT ![self].pc = "idle",
                                                   ![self].rc = 0 - 1,
                                                   ![self].calls = th.calls + 1]
                     /\ ret' = [op |-> "dat_add_payload_sample", rc |-> 0 - 1]
    /\ repo_data_sem' = 0
    /\ UNCHANGED <<engine_hist, status_hist, payload_hist>>

\* line 367, dat_set_system_var -> dat_set_status_var line 143: osSemaphoreTake
AddWriteTake(self) ==
    /\ threads[self].pc = "index_write_take"
    /\ repo_data_sem = 0
    /\ repo_data_sem' = self
    /\ threads' = [threads EXCEPT ![self].pc = "index_write_call"]
    /\ UNCHANGED <<st, ret, engine_hist, status_hist, payload_hist>>

\* dat_set_status_var lines 145-154: the writes, osSemaphoreGiven; line 368: return 0
AddWriteCall(self) ==
    /\ threads[self].pc = "index_write_call"
    /\ st' = dat_set_system_var(st, data_map[threads[self].payload].sys_index,
                                threads[self].index).st
    /\ repo_data_sem' = 0
    /\ threads' = [threads EXCEPT ![self].pc = "idle", ![self].rc = 0,
                                  ![self].calls = threads[self].calls + 1]
    /\ ret' = [op |-> "dat_add_payload_sample", rc |-> 0]
    /\ UNCHANGED <<engine_hist, status_hist, payload_hist>>

AddStep(self) ==
    \/ \E data \in AppendSamples, payload \in 0 .. (last_sensor - 1) :
          CallAdd(self, data, payload)
    \/ AddIndexTake(self)
    \/ AddIndexRead(self)
    \/ AddSetTake(self)
    \/ AddSetCall(self)
    \/ AddWriteTake(self)
    \/ AddWriteCall(self)

AddNext == \E self \in Threads : AddStep(self)

SpecAdd == InitAdd /\ [][AddNext]_vars

\* C38: when two threads have each made one call of dat_add_payload_sample for the
\* same payload and both calls returned 0, the two samples are stored at two
\* different indexes, both are read back by dat_get_payload_sample, and the
\* payload's sys_index is 2
C38_ConcurrentAddsKeepBoth ==
    \A a, b \in Threads :
        (/\ a # b
         /\ threads[a].pc = "idle" /\ threads[a].calls = 1 /\ threads[a].rc = 0
         /\ threads[b].pc = "idle" /\ threads[b].calls = 1 /\ threads[b].rc = 0
         /\ threads[a].stored_at >= 0 /\ threads[b].stored_at >= 0
         /\ threads[a].payload = threads[b].payload)
          => LET payload == threads[a].payload
             IN  /\ threads[a].stored_at # threads[b].stored_at
                 /\ dat_get_payload_sample(st, payload, threads[a].stored_at, NoData)
                       = [rc |-> SCH_ST_OK, data |-> threads[a].data]
                 /\ dat_get_payload_sample(st, payload, threads[b].stored_at, NoData)
                       = [rc |-> SCH_ST_OK, data |-> threads[b].data]
                 /\ dat_get_system_var(st, data_map[payload].sys_index) = 2

(* ------------------------------------------------------------------ *)
(* Every call gives repo_data_sem back and returns                     *)
(* ------------------------------------------------------------------ *)
\* the steps of a call that has started, up to its return
ConcRun(self) ==
    \/ ReadTake(self)
    \/ ReadCall(self)
    \/ FpTake(self)
    \/ SetFpCall(self)
    \/ GetFpCall(self)
    \/ DelFpCall(self)
    \/ WriteTake(self)
    \/ WriteCall(self)
AddRun(self) ==
    \/ AddIndexTake(self)
    \/ AddIndexRead(self)
    \/ AddSetTake(self)
    \/ AddSetCall(self)
    \/ AddWriteTake(self)
    \/ AddWriteCall(self)

FairNext ==
    \E self \in Threads :
        \/ \E t \in ConcTimes : CallSetFp(self, t)
        \/ \E t \in ConcTimes : CallGetFp(self, t)
        \/ \E t \in ConcTimes : CallDelFp(self, t)
        \/ CallAdd(self, 7, 1)
        \/ ConcRun(self)
        \/ AddRun(self)

\* osSemaphoreTake(&repo_data_sem, portMAX_DELAY): a thread that waits for the
\* semaphore gets it once it is given often enough; a thread that can run does
SpecFair ==
    /\ Init
    /\ [][FairNext]_vars
    /\ \A self \in Threads : SF_vars(ConcRun(self) \/ AddRun(self))

\* the positions between an osSemaphoreTake and its osSemaphoreGiven
CriticalPcs ==
    {"read_call", "fp_call", "write_call", "index_read", "set_call", "index_write_call"}

LiveSet(tlb) ==
    <<{k \in TlbSlots : tlb[k].unixtime # ST_FP_NULL}, tlb[SCH_FP_MAX_ENTRIES].addr>>

\* C39: an fp_set that returns error because a write of the TLB or of the flash
\* page failed leaves the live slots and the metadata counter, in memory and as
\* persisted, as they were before the call
C39_FailedSetChangesNothing ==
    [][(/\ ret'.op = "fp_set" /\ ret'.rc = SCH_ST_ERROR
        /\ st.media_fault /\ MediaCallMade(st, ret'))
          => /\ LiveSet(st'.st_flightplan_tlb) = LiveSet(st.st_flightplan_tlb)
             /\ LiveSet(st'.fram_tlb) = LiveSet(st.fram_tlb)]_vars

(* ------------------------------------------------------------------ *)
(* The samples of one payload and those of the others                  *)
(* ------------------------------------------------------------------ *)
\* the first byte of the K sections of a payload
PayloadBase(payload) ==
    st_payload_base_addr + payload * SCH_SECTIONS_PER_PAYLOAD * SCH_SIZE_PER_SECTION

\* C40: a payload_set(p, i) within capacity that returns ok writes inside the K
\* sections of payload p, leaves what payload_get returns for every other sample
\* of p and for every sample of every other payload as it was, and leaves the
\* flight-plan sections as they were
C40_PayloadIsolation ==
    [][(ret'.op = "payload_set" /\ InRangeCall(ret') /\ ret'.rc = SCH_ST_OK)
          => /\ SampleAddr(st, ret'.payload, ret'.index, ret'.size) >= PayloadBase(ret'.payload)
             /\ SampleAddr(st, ret'.payload, ret'.index, ret'.size) + ret'.size
                   <= PayloadBase(ret'.payload + 1)
             /\ \A q \in 0 .. (last_sensor - 1), j \in SampleIdx, size \in RecordSizes :
                   (/\ j < PayloadCapacity(size)
                    /\ <<q, j>> # <<ret'.payload, ret'.index>>
                    /\ q = ret'.payload => size = ret'.size)
                     => storage_payload_get_data(st', q, j, NoData, [size |-> size])
                          = storage_payload_get_data(st, q, j, NoData, [size |-> size])
             /\ FpRecords(st') = FpRecords(st)]_vars

====
